---- MODULE Spec2Model ----
(***************************************************************************)
(* Model of bybop's ARNetwork layer (src/src/Bybop_Network.py) on top of   *)
(* the ARNetworkAL datagram transport (src/src/Bybop_NetworkAL.py).        *)
(*                                                                         *)
(* Threads: application threads calling Network.send_data, and the single  *)
(* read thread of NetworkAL that calls Network.data_received once per      *)
(* inbound frame.  An action is one access to state that another thread   *)
(* can touch, together with the thread-local computation around it: the    *)
(* statements of _get_seq on a send buffer are split at every load and     *)
(* store of self._send_seq, where the interpreter may switch threads.      *)
(* The counters of the pong buffer and of the acknowledge buffers belong   *)
(* to the read thread alone (no application thread can name them: they are *)
(* not in send_buffers), so data_received is one action.                   *)
(*                                                                         *)
(* The listener of Network is a Device (src/src/Bybop_Device.py): it       *)
(* decodes the payloads of its command buffers with unpack_command         *)
(* (src/src/Bybop_Commands.py) and stores them; its did_disconnect stops   *)
(* the transport.  The transport itself (sockets, _alive, _running, the    *)
(* read loop, stop and start) is modelled for the specifications that      *)
(* follow the life of the read thread.                                     *)
(***************************************************************************)
EXTENDS Integers, Sequences, FiniteSets, TLC

\* ------------------------------------------------------------------------
\* Program constants
\* ------------------------------------------------------------------------
ACK == 1
DATA == 2
DATA_LOW_LATENCY == 3
DATA_WITH_ACK == 4

OK == 0
ERROR == 1
TIMEOUT == 2

\* the modulus of the outbound sequence counters
SeqMod == 256
\* initial value of the last accepted sequence number of a receive buffer
RecvSeqInit == 255
\* offset between a data buffer and its acknowledge buffer
AckOffset == 128
\* buffer on which the peer sends pings, buffer on which pongs are answered
PingBuffer == 0
PongBuffer == 1
\* threshold of the acceptance test in _should_accept
ReorderLimit == 10
\* largest value of an unsigned byte field of struct.pack('<BBBI', ...)
ByteMax == 255

\* Buffers given to Network.__init__ by the device classes
\* (BebopDrone / JumpingSumo: ackBuffer=11, nackBuffer=10, cmdBuffers=[127, 126])
SendBuffers == {10, 11}
RecvBuffers == {126, 127}
\* Device passes its cmdBuffers as the recv_buffers of its Network
cmdBuffers == RecvBuffers

\* ------------------------------------------------------------------------
\* Bounds of the model
\* ------------------------------------------------------------------------
\* largest value of the 'tries' argument of send_data
MaxTries == 3
\* number of inbound frames the peer sends while application threads run
MaxFrames == 2
\* number of inbound frames the peer sends to the read thread running alone
MaxFeed == 5
\* number of ACK frames the peer sends while calls of every kind are made
MaxAcks == 1
\* number of datagrams the peer sends to the read loop
MaxDatagrams == 2
\* largest number of frames coalesced in one datagram
MaxCoalesced == 2
\* number of calls of stop() and start() the application makes
MaxOps == 3

Senders == {"s1", "s2"}
Reader == "rd"
Threads == Senders \cup {Reader}

NoFrame == [type |-> 0, buf |-> 0, seq |-> 0, data |-> <<>>]
NoCall == [buf |-> 0, data |-> <<>>, type |-> 0, timeout |-> "finite",
           tries |-> 0, status |-> TIMEOUT, n |-> 0]
NoGs == [ret |-> 0, tmp |-> 0]

VARIABLES
    send_seq,     \* Network._send_seq : dict buffer -> next outbound seq
    recv_seq,     \* Network._recv_seq : dict buffer -> last accepted seq
    ack_events,   \* Network._ack_events : dict buffer -> Event flag
    ack_seq,      \* Network._ack_seq : dict buffer -> seq waiting for its ack
    buf_locks,    \* Network._buf_locks : dict buffer -> holder, or "free"
    pc,           \* position of every thread
    call,         \* arguments and locals of each thread's send_data call
                  \* (n: the value 'tries' had when the call was made)
    gs,           \* frame of each thread's running _get_seq call
    frame,        \* the inbound frame data_received has handled last
    framesLeft,   \* frames the peer will still send
    base,         \* the outbound counters in the initial state
    allocs,       \* per buffer, the values _get_seq returned, in order
    wire,         \* per send buffer, the frames send_data handed to sendto
    out,          \* what data_received did for the current frame, in order
    last0,        \* recv_seq of the frame's buffer when the frame came in
    sig,          \* ack events that data_received set for the current frame
    ackTry,       \* per sender: try during whose wait its ack first came in
    acked,        \* per sender: an ack for its seq came in since it registered
    fed,          \* data frames fed to a receive buffer: seq and decision
    alive,        \* NetworkAL._alive
    running,      \* NetworkAL._running
    send_sock,    \* NetworkAL._send_sock : "open" or "closed"
    recv_sock,    \* NetworkAL._recv_sock : "open" or "closed"
    loop,         \* position of the read thread in _read_loop
    the_data,     \* _read_loop's the_data: the bytes not yet consumed
    why,          \* how the read loop left its while loop
    ctl,          \* position of the application thread calling stop and start
    opsLeft,      \* calls of stop() and start() the application still makes
    stopped,      \* stop() was called since the transport was last started
    late,         \* per sender: its call began after the disconnection
    rx,           \* frames of the datagrams the read loop received, in order
    calls,        \* callbacks the read loop made to its listener, in order
    store,        \* Device._state._dict : project -> class -> command -> value
    waitlist,     \* Device._state._waitlist : name -> wait id -> Event flag
    waitid,       \* Device._state._waitid
    wt,           \* the wait_for call of every waiting thread (regAt, retAt,
                  \* endAt: the length of plog when it registered, when its
                  \* wait returned, when it unregistered)
    plog,         \* the put, put_list and put_map calls of the application
                  \* threads, in the order in which they took the lock
    putsLeft,     \* calls of the State the application threads still make
    dcall,        \* per sender: its call of Device.send_data
    codec         \* a thread that packs a command and unpacks the result

alVars == <<alive, running, send_sock, recv_sock, loop, the_data, why, ctl,
            opsLeft, stopped, rx, calls>>

vars == <<send_seq, recv_seq, ack_events, ack_seq, buf_locks, pc, call, gs,
          frame, framesLeft, base, allocs, wire, out, last0, sig, ackTry,
          acked, fed, alive, running, send_sock, recv_sock, loop, the_data,
          why, ctl, opsLeft, stopped, late, rx, calls, store, waitlist,
          waitid, wt, plog, putsLeft, dcall, codec>>

\* what the threads that use the State and Device.send_data own
stVars == <<waitid, wt, plog, putsLeft, dcall, codec>>

netVars == <<send_seq, recv_seq, ack_events, ack_seq, buf_locks>>
rdGhost == <<out, last0, sig, fed>>

\* ------------------------------------------------------------------------
\* Pure helpers
\* ------------------------------------------------------------------------

\* struct.pack('<BBBI', type, buf, seq, len(data) + 7) raises struct.error
\* unless the three byte fields fit an unsigned byte.
PackOk(type, buf, seq) ==
    /\ type \in 0..ByteMax
    /\ buf \in 0..ByteMax
    /\ seq \in 0..ByteMax

\* an acceptance test without the clause for the wrap of the counter
AcceptTestNoWrap(prev, seq) == seq - prev >= 0

\* the test of _should_accept on the previous and the new sequence number
AcceptTest(prev, seq) ==
    LET diff == seq - prev
    IN  diff >= 0 \/ diff <= -ReorderLimit

\* an ACK handler that does not compare the acknowledged seq
AckMatchesAny(payloadSeq, pending) == TRUE

\* the comparison that decides whether an ACK frame releases the waiter
AckMatches(payloadSeq, pending) == payloadSeq = pending

\* a retry loop that looks at the remaining tries alone
KeepTryingAnyStatus(tries, status) == tries > 0

\* the condition of the retry loop of send_data
KeepTrying(tries, status) == tries > 0 /\ status = TIMEOUT

\* needack = type == DataType.DATA_WITH_ACK
NeedAck(type) == type = DATA_WITH_ACK

\* a failed transmission taken for a try that timed out
SendStatusRetry(ok) == IF ok THEN OK ELSE TIMEOUT

\* status = OK if self._netal.send_data(...) else ERROR
SendStatus(ok) == IF ok THEN OK ELSE ERROR

\* results of sendto in NetworkAL.send_data: it can fail at any time, and
\* it raises (caught: False) on a closed socket
SendtoResults == IF send_sock = "open" THEN BOOLEAN ELSE {FALSE}

\* result of Event.wait(timeout): the flag when it is set; a finite timeout
\* may elapse only while the flag is clear; without timeout the call blocks
WaitResults(flag, timeout) ==
    IF flag THEN {TRUE}
    ELSE IF timeout = "finite" THEN {FALSE} ELSE {}

Has(d, b) == b \in DOMAIN d
Put(d, b, v) == [x \in (DOMAIN d) \cup {b} |-> IF x = b THEN v ELSE d[x]]

\* ------------------------------------------------------------------------
\* Initial state: Network.__init__.  NetInit(counters) is the state of a
\* Network whose outbound counters hold 'counters' while no call is running:
\* all 0 after __init__; 255 after 255 frames went out on the buffer.
\* ------------------------------------------------------------------------
NetInit(counters) ==
    /\ send_seq = counters
    /\ base = send_seq
    /\ recv_seq = [b \in RecvBuffers |-> RecvSeqInit]
    /\ ack_events = [b \in SendBuffers |-> FALSE]
    /\ ack_seq = [b \in SendBuffers |-> 0]
    /\ buf_locks = [b \in SendBuffers |-> "free"]

GhostInit ==
    /\ allocs = [b \in SendBuffers |-> <<>>]
    /\ wire = [b \in SendBuffers |-> <<>>]
    /\ out = <<>>
    /\ last0 = RecvSeqInit
    /\ sig = {}
    /\ ackTry = [t \in Senders |-> 0]
    /\ acked = [t \in Senders |-> FALSE]
    /\ fed = [b \in RecvBuffers |-> <<>>]

ThreadInit ==
    /\ pc = [t \in Threads |-> IF t = Reader THEN "idle" ELSE "start"]
    /\ call = [t \in Senders |-> NoCall]
    /\ gs = [t \in Senders |-> NoGs]
    /\ frame = NoFrame
    /\ late = [t \in Senders |-> FALSE]

\* NetworkAL.__init__ and the start() it calls: the sockets are open and the
\* read thread runs; the application will make 'ops' calls of stop and start
ALInit(ops) ==
    /\ alive = TRUE
    /\ running = TRUE
    /\ send_sock = "open"
    /\ recv_sock = "open"
    /\ loop = "while"
    /\ the_data = <<>>
    /\ why = ""
    /\ ctl = "ready"
    /\ opsLeft = ops
    /\ stopped = FALSE
    /\ rx = <<>>
    /\ calls = <<>>

Waiters == {"w1", "w2"}
NoWait == [pc |-> "start", name |-> <<>>, timeout |-> "finite", wid |-> 0,
           res |-> FALSE, regAt |-> 0, retAt |-> 0, endAt |-> 0]
NoDCall == [name |-> <<>>, args |-> <<>>, kw |-> <<>>, made |-> FALSE,
            early |-> "no"]
NoPacked == [exc |-> "none", bytes |-> <<>>, buf |-> ""]
NoCodec == [pc |-> "off", name |-> <<>>, args |-> <<>>, packed |-> NoPacked,
            unpacked |-> <<>>]

\* State.__init__: empty dictionaries, _waitid = 0; the application threads
\* will make 'puts' calls of the State
DevStart(puts) ==
    /\ store = <<>>
    /\ waitlist = <<>>
    /\ waitid = 0
    /\ wt = [w \in Waiters |-> NoWait]
    /\ plog = <<>>
    /\ putsLeft = puts
    /\ dcall = [t \in Senders |-> NoDCall]

\* no thread uses the codec on its own
DevInitWith(puts) == DevStart(puts) /\ codec = NoCodec

DevInit == DevInitWith(0)

\* ------------------------------------------------------------------------
\* Network._get_seq(buf)
\* ------------------------------------------------------------------------

\* a _get_seq that forgets to advance the counter
GetSeqNowStuck(d, b) ==
    LET d0 == IF Has(d, b) THEN d ELSE Put(d, b, 0)
    IN  [ret |-> d0[b], dict |-> d0]

\* _get_seq run without interruption on the dictionary d: the value returned
\* and the dictionary left behind
GetSeqNow(d, b) ==
    LET d0 == IF Has(d, b) THEN d ELSE Put(d, b, 0)
        ret == d0[b]
        d1 == [d0 EXCEPT ![b] = ret + 1]
    IN  [ret |-> ret, dict |-> [d1 EXCEPT ![b] = d1[b] % SeqMod]]

Logged(log, b, v) == Put(log, b, Append(IF Has(log, b) THEN log[b] ELSE <<>>, v))

\* _get_seq called by an application thread t on the send buffer call[t].buf:
\* one action per load or store of self._send_seq[buf].
\* self._send_seq[buf] += 1 : the load  (ret was read by the step before)
GetSeqIncLoad(t) ==
    /\ pc[t] = "gs_inc_load"
    /\ gs' = [gs EXCEPT ![t].tmp = send_seq[call[t].buf]]
    /\ pc' = [pc EXCEPT ![t] = "gs_inc_store"]
    /\ UNCHANGED <<netVars, call, frame, framesLeft, base, allocs, wire,
                   rdGhost, ackTry, acked, alVars, late, store, waitlist, stVars>>

\* self._send_seq[buf] += 1 : the store
GetSeqIncStore(t) ==
    /\ pc[t] = "gs_inc_store"
    /\ send_seq' = [send_seq EXCEPT ![call[t].buf] = gs[t].tmp + 1]
    /\ pc' = [pc EXCEPT ![t] = "gs_mod_load"]
    /\ UNCHANGED <<recv_seq, ack_events, ack_seq, buf_locks, call, gs, frame,
                   framesLeft, base, allocs, wire, rdGhost, ackTry, acked,
                   alVars, late, store, waitlist, stVars>>

\* self._send_seq[buf] %= 256 : the load
GetSeqModLoad(t) ==
    /\ pc[t] = "gs_mod_load"
    /\ gs' = [gs EXCEPT ![t].tmp = send_seq[call[t].buf]]
    /\ pc' = [pc EXCEPT ![t] = "gs_mod_store"]
    /\ UNCHANGED <<netVars, call, frame, framesLeft, base, allocs, wire,
                   rdGhost, ackTry, acked, alVars, late, store, waitlist, stVars>>

\* self._send_seq[buf] %= 256 : the store ; return ret
GetSeqModStore(t) ==
    /\ pc[t] = "gs_mod_store"
    /\ send_seq' = [send_seq EXCEPT ![call[t].buf] = gs[t].tmp % SeqMod]
    /\ gs' = [gs EXCEPT ![t].tmp = 0]
    /\ pc' = [pc EXCEPT ![t] = "lock"]
    /\ UNCHANGED <<recv_seq, ack_events, ack_seq, buf_locks, call, frame,
                   framesLeft, base, allocs, wire, rdGhost, ackTry, acked,
                   alVars, late, store, waitlist, stVars>>

\* ------------------------------------------------------------------------
\* Network.send_data(buf, data, type, timeout, tries)
\* ------------------------------------------------------------------------
seqnum(t) == gs[t].ret

\* the locals of a call with arguments a
NewCall(a, status) ==
    [buf |-> a.buf, data |-> a.data, type |-> a.type, timeout |-> a.timeout,
     tries |-> a.tries, status |-> status, n |-> a.tries]

\* a test that lets every buffer pass
DeclaredAny(buf) == TRUE

\* buf in self._send_buffers
Declared(buf) == buf \in SendBuffers

\* the read loop ended on a read timeout and did_disconnect has returned
LivenessLost == loop \in {"unrun", "ended"} /\ why = "timeout"

\* entry: the declared-buffer test, then _get_seq up to ret = self._send_seq[buf]
SendBegin(t, a) ==
    /\ pc[t] = "start"
    /\ IF Declared(a.buf)
       THEN LET d == IF Has(send_seq, a.buf) THEN send_seq
                     ELSE Put(send_seq, a.buf, 0)
            IN  /\ send_seq' = d
                /\ call' = [call EXCEPT ![t] = NewCall(a, TIMEOUT)]
                /\ gs' = [gs EXCEPT ![t].ret = d[a.buf]]
                /\ allocs' = Logged(allocs, a.buf, d[a.buf])
                /\ pc' = [pc EXCEPT ![t] = "gs_inc_load"]
       ELSE /\ call' = [call EXCEPT ![t] = NewCall(a, ERROR)]
            /\ pc' = [pc EXCEPT ![t] = "done"]
            /\ UNCHANGED <<send_seq, gs, allocs>>
    /\ late' = [late EXCEPT ![t] = LivenessLost]
    /\ UNCHANGED <<recv_seq, ack_events, ack_seq, buf_locks, frame, framesLeft,
                   base, wire, rdGhost, ackTry, acked, alVars, store, waitlist>>

\* Network.send_data(buf, data, type, timeout, tries) called by the
\* application thread t
SendData(t, a) == SendBegin(t, a) /\ UNCHANGED stVars

\* where the call goes after a pass of the loop: the next pass, or out of the
\* with block (the lock is released) and back to the caller; the test of the
\* loop condition reads locals only, so it belongs to the step before it
AfterPass(t, tries, status) ==
    IF KeepTrying(tries, status)
    THEN /\ pc' = [pc EXCEPT ![t] = "loop"]
         /\ buf_locks' = [buf_locks EXCEPT ![call[t].buf] = t]
    ELSE /\ pc' = [pc EXCEPT ![t] = "done"]
         /\ buf_locks' = [buf_locks EXCEPT ![call[t].buf] = "free"]

\* one lock shared by every send buffer
LockFreeGlobal(b) == \A bb \in DOMAIN buf_locks : buf_locks[bb] = "free"

\* a with statement that never waits
LockFreeAlways(b) == TRUE

\* the with statement enters when no other thread holds the buffer's lock
LockFree(b) == buf_locks[b] = "free"

\* with self._buf_locks[buf]: and, for acknowledged data, under
\* self._ack_events_lock: clear the event, record the awaited seqnum.
\* (Taking the buffer lock changes nothing the read thread reads, and no other
\* sender can act on this buffer's event while the lock is held, so taking the
\* lock and registering are one step.)
SendLock(t) ==
    /\ pc[t] = "lock"
    /\ LockFree(call[t].buf)
    /\ IF NeedAck(call[t].type)
       THEN /\ ack_events' = [ack_events EXCEPT ![call[t].buf] = FALSE]
            /\ ack_seq' = [ack_seq EXCEPT ![call[t].buf] = seqnum(t)]
       ELSE UNCHANGED <<ack_events, ack_seq>>
    /\ AfterPass(t, call[t].tries, call[t].status)
    /\ UNCHANGED <<send_seq, recv_seq, call, gs, frame, framesLeft, base,
                   allocs, wire, rdGhost, ackTry, acked, alVars, late, store, waitlist, stVars>>

\* one pass of the while loop up to the wait: tries -= 1, netal.send_data;
\* struct.error from struct.pack leaves send_data through the with block
SendTry(t) ==
    /\ pc[t] = "loop"
    /\ LET c == call[t] IN
       IF ~PackOk(c.type, c.buf, seqnum(t))
       THEN /\ pc' = [pc EXCEPT ![t] = "raised"]
            /\ buf_locks' = [buf_locks EXCEPT ![c.buf] = "free"]
            /\ call' = [call EXCEPT ![t].tries = c.tries - 1]
            /\ wire' = wire
       ELSE \E ok \in SendtoResults :
            /\ wire' = [wire EXCEPT ![c.buf] =
                          Append(@, [who |-> t, type |-> c.type, seq |-> seqnum(t),
                                     data |-> c.data, ok |-> ok])]
            /\ call' = [call EXCEPT ![t].tries = c.tries - 1,
                                    ![t].status = SendStatus(ok)]
            /\ IF NeedAck(c.type) /\ SendStatus(ok) = OK
               THEN /\ pc' = [pc EXCEPT ![t] = "wait"]
                    /\ buf_locks' = buf_locks
               ELSE AfterPass(t, c.tries - 1, SendStatus(ok))
    /\ UNCHANGED <<send_seq, recv_seq, ack_events, ack_seq, gs, frame,
                   framesLeft, base, allocs, rdGhost, ackTry, acked, alVars,
                   late, store, waitlist, stVars>>

\* status = OK if self._ack_events[buf].wait(timeout) else TIMEOUT
SendWait(t) ==
    /\ pc[t] = "wait"
    /\ \E r \in WaitResults(ack_events[call[t].buf], call[t].timeout) :
          LET st == IF r THEN OK ELSE TIMEOUT IN
          /\ call' = [call EXCEPT ![t].status = st]
          /\ AfterPass(t, call[t].tries, st)
    /\ UNCHANGED <<send_seq, recv_seq, ack_events, ack_seq, gs, frame,
                   framesLeft, base, allocs, wire, rdGhost, ackTry, acked,
                   alVars, late, store, waitlist, stVars>>

\* ------------------------------------------------------------------------
\* Bybop_Commands: the command catalogue, pack_command and unpack_command
\* ------------------------------------------------------------------------

\* The command catalogue _ctx, parsed at import from the arsdk-xml files
\* (which are not part of the sources): a catalogue with commands of every
\* buffer type, list type and argument kind the code distinguishes, named
\* after arsdk-xml.  proj, cls, cmd are the ids; args are the struct kinds of
\* the arguments in declared order; feat marks a flat feature (no classes).
Cmd(proj, pname, cls, cname, cmd, cmdname, args, argnames, listtype, buftype, feat) ==
    [proj |-> proj, pname |-> pname, cls |-> cls, cname |-> cname,
     cmd |-> cmd, cmdname |-> cmdname, args |-> args, argnames |-> argnames,
     listtype |-> listtype, buftype |-> buftype, feat |-> feat]

Schema ==
    { Cmd(0, "common", 5, "CommonState", 0, "AllStatesChanged",
          <<>>, <<>>, "NONE", "ACK", FALSE),
      Cmd(0, "common", 5, "CommonState", 1, "BatteryStateChanged",
          <<"u8">>, <<"percent">>, "NONE", "ACK", FALSE),
      Cmd(0, "common", 3, "SettingsState", 2, "ProductNameChanged",
          <<"string">>, <<"name">>, "NONE", "ACK", FALSE),
      Cmd(0, "common", 5, "CommonState", 2, "MassStorageStateListChanged",
          <<"u8", "string">>, <<"mass_storage_id", "name">>, "MAP", "ACK", FALSE),
      Cmd(0, "common", 4, "Common", 0, "AllStates",
          <<>>, <<>>, "NONE", "ACK", FALSE),
      Cmd(0, "common", 4, "Common", 1, "CurrentDate",
          <<"string">>, <<"date">>, "NONE", "ACK", FALSE),
      Cmd(1, "ardrone3", 0, "Piloting", 4, "Emergency",
          <<>>, <<>>, "NONE", "HIGH_PRIO", FALSE),
      Cmd(1, "ardrone3", 2, "PilotingSettings", 0, "MaxAltitude",
          <<"float">>, <<"current">>, "NONE", "ACK", FALSE),
      Cmd(1, "ardrone3", 14, "NetworkState", 0, "WifiScanListChanged",
          <<"string", "i8">>, <<"ssid", "rssi">>, "LIST", "ACK", FALSE),
      Cmd(3, "jpsumo", 0, "Piloting", 0, "PCMD",
          <<"u8", "i8", "i8">>, <<"flag", "speed", "turn">>, "NONE", "NON_ACK",
          FALSE),
      Cmd(149, "generic", 0, "", 1, "default",
          <<>>, <<>>, "NONE", "ACK", TRUE),
      Cmd(149, "generic", 0, "", 2, "SetDroneSettings",
          <<"multi">>, <<"settings">>, "NONE", "ACK", TRUE),
      Cmd(140, "wifi", 0, "", 1, "scan",
          <<"u8">>, <<"band">>, "NONE", "ACK", TRUE) }

NoCmd == Cmd(0, "", 0, "", 0, "", <<>>, <<>>, "NONE", "ACK", FALSE)

\* a dotted name 'a.b.c' is the sequence of its components; the components of
\* the catalogue hold no dot, so '%s.%s.%s' % (pr, cl, cmd) is <<pr, cl, cmd>>
\* and name.split('.') gives the sequence back
DottedName(pr, cl, cmd) == <<pr, cl, cmd>>

\* exceptions: none, CommandError, or another exception
NoExc == "none"
CommandError == "CommandError"
OtherExc == "Exception"

RECURSIVE Pow2(_)
Pow2(k) == IF k = 0 THEN 1 ELSE 2 * Pow2(k - 1)

\* floor of the binary logarithm of n >= 1
Log2(n) == CHOOSE k \in 0..30 : Pow2(k) <= n /\ n < 2 * Pow2(k)

\* n >= 2^24 cut to 24 significant bits, round half to even
Rounded(q, r, sh) ==
    IF (2 * r > sh) \/ (2 * r = sh /\ q % 2 = 1) THEN q + 1 ELSE q

\* the bits of a single with exponent e for the integral value n
F32With(n, e) ==
    IF e <= 23
    THEN (e + 127) * Pow2(23) + (n * Pow2(23 - e) - Pow2(23))
    ELSE (e + 127) * Pow2(23)
         + (Rounded(n \div Pow2(e - 23), n % Pow2(e - 23), Pow2(e - 23)) - Pow2(23))

\* the bits of the IEEE 754 single that struct.pack('<f', n) writes for a
\* float of integral value n >= 0: 24 significant bits, round half to even
F32Bits(n) == IF n = 0 THEN 0 ELSE F32With(n, Log2(n))

\* the value of a single from its exponent and its 24-bit significand
F32Of(e, m) == IF e >= 23 THEN m * Pow2(e - 23) ELSE m \div Pow2(23 - e)

\* the value struct.unpack('<f', ...) reads from the bits of a single that
\* holds a non-negative integral value
F32Val(bits) ==
    IF bits = 0 THEN 0
    ELSE F32Of((bits \div Pow2(23)) - 127, Pow2(23) + (bits % Pow2(23)))

\* a little-endian unsigned 32-bit value from its four bytes
FromLE32(s) == s[1] + 256 * s[2] + 65536 * s[3] + 16777216 * s[4]

\* the four bytes of an unsigned 32-bit value, little-endian
LE32(n) ==
    <<n % 256, (n \div 256) % 256, (n \div 65536) % 256, (n \div 16777216) % 256>>

\* struct.calcsize of a fixed-size kind
Width(kind) == IF kind = "float" THEN 4 ELSE 1

\* _format_string_for_cmd(cmd) raises Exception('Multisettings not supported !')
Multi(cmd) == \E i \in 1..Len(cmd.args) : cmd.args[i] = "multi"

\* struct.pack of one value: struct.error when it is out of range
BadValue(k, v) ==
    CASE k = "u8" -> v \notin 0..255
      [] k = "i8" -> v \notin (-128)..127
      [] OTHER -> FALSE

\* the bytes of one value, a string without its NUL
PackedValueNoNul(k, v) ==
    CASE k = "u8" -> <<v>>
      [] k = "i8" -> <<v % 256>>
      [] k = "float" -> LE32(F32Bits(v))
      [] OTHER -> v

\* the bytes of one value; a string is written with its NUL
PackedValue(k, v) ==
    CASE k = "u8" -> <<v>>
      [] k = "i8" -> <<v % 256>>
      [] k = "float" -> LE32(F32Bits(v))
      [] OTHER -> v \o <<0>>

PackCons(bad, one, r) ==
    IF bad \/ r.raised
    THEN [raised |-> TRUE, bytes |-> <<>>]
    ELSE [raised |-> FALSE, bytes |-> one \o r.bytes]

\* _struct_pack(fmt, *args) and struct.pack inside it: IndexError or
\* struct.error when the arguments are fewer or more than the format wants or
\* out of the range of their kind
RECURSIVE struct_pack(_, _)
struct_pack(kinds, args) ==
    IF kinds = <<>>
    THEN [raised |-> Len(args) > 0, bytes |-> <<>>]
    ELSE IF args = <<>>
    THEN [raised |-> TRUE, bytes |-> <<>>]
    ELSE PackCons(BadValue(Head(kinds), Head(args)),
                  PackedValue(Head(kinds), Head(args)),
                  struct_pack(Tail(kinds), Tail(args)))

\* the arguments part of pack_command: _struct_pack is called only when the
\* command declares arguments ('needed'); else *args is not looked at
PackArgs(cmd, args) ==
    IF Len(cmd.args) = 0
    THEN [raised |-> FALSE, bytes |-> <<>>]
    ELSE struct_pack(cmd.args, args)

\* the command a name stands for: a project is looked up before a feature,
\* and the class name is ignored for a feature
ByName(s_proj, s_cls, s_cmd) ==
    IF \E e \in Schema : ~e.feat /\ e.pname = s_proj
    THEN {e \in Schema : /\ ~e.feat
                         /\ e.pname = s_proj
                         /\ e.cname = s_cls
                         /\ e.cmdname = s_cmd}
    ELSE {e \in Schema : /\ e.feat
                         /\ e.pname = s_proj
                         /\ e.cmdname = s_cmd}

\* struct.pack('<BBH', projid, clsid, cmd.cmdId)
PackedHead(cmd) ==
    <<cmd.proj, IF cmd.feat THEN 0 ELSE cmd.cls, cmd.cmd % 256, cmd.cmd \div 256>>

PackFailed(exc) == [exc |-> exc, bytes |-> <<>>, buf |-> ""]

PackedCmd(cmd, p) ==
    IF p.raised THEN PackFailed(CommandError)
    ELSE [exc |-> NoExc, bytes |-> PackedHead(cmd) \o p.bytes,
          buf |-> cmd.buftype]

PackFound(cmd, args) ==
    IF Multi(cmd) THEN PackFailed(OtherExc)
    ELSE PackedCmd(cmd, PackArgs(cmd, args))

\* pack_command(s_proj, s_cls, s_cmd, *args): the exception raised, or the
\* bytes and the recommended buffer type
pack_command(s_proj, s_cls, s_cmd, args) ==
    IF ByName(s_proj, s_cls, s_cmd) = {}
    THEN PackFailed(CommandError)
    ELSE PackFound(CHOOSE e \in ByName(s_proj, s_cls, s_cmd) : TRUE, args)

\* the value read from the first bytes of s for a fixed-size kind
UnpackedValue(k, s) ==
    CASE k = "float" -> F32Val(FromLE32(s))
      [] k = "i8" -> IF s[1] >= 128 THEN s[1] - 256 ELSE s[1]
      [] OTHER -> s[1]

UnpackCons(v, r) ==
    [raised |-> r.raised, vals |-> IF r.raised THEN <<>> ELSE <<v>> \o r.vals]

\* position of the first NUL of s, 0 when there is none
FirstNul(s) ==
    IF \A i \in 1..Len(s) : s[i] # 0 THEN 0
    ELSE CHOOSE i \in 1..Len(s) : s[i] = 0 /\ \A j \in 1..(i - 1) : s[j] # 0

\* _struct_unpack(fmt, string) for the kinds of fmt: the values, or raised
\* (CommandError for a string without NUL, struct.error when the bytes are
\* too few or too many for the format)
RECURSIVE struct_unpack(_, _)
RECURSIVE UnpackString(_, _, _)
UnpackString(kinds, s, n) ==
    IF n = 0
    THEN [raised |-> TRUE, vals |-> <<>>]
    ELSE UnpackCons(SubSeq(s, 1, n - 1),
                    struct_unpack(Tail(kinds), SubSeq(s, n + 1, Len(s))))

RECURSIVE UnpackFixed(_, _, _)
UnpackFixed(kinds, s, w) ==
    IF Len(s) < w
    THEN [raised |-> TRUE, vals |-> <<>>]
    ELSE UnpackCons(UnpackedValue(Head(kinds), s),
                    struct_unpack(Tail(kinds), SubSeq(s, w + 1, Len(s))))

struct_unpack(kinds, s) ==
    IF kinds = <<>>
    THEN [raised |-> Len(s) > 0, vals |-> <<>>]
    ELSE IF Head(kinds) = "string"
    THEN UnpackString(kinds, s, FirstNul(s))
    ELSE UnpackFixed(kinds, s, Width(Head(kinds)))

\* ret['args']: each declared name with its value, a later one of the same
\* name replacing an earlier one
ArgsDict(names, vals) ==
    [n \in {names[i] : i \in 1..Len(vals)} |->
        vals[CHOOSE i \in 1..Len(vals) :
                /\ names[i] = n
                /\ \A j \in 1..Len(vals) : names[j] = n => j <= i]]

\* the command an id triple stands for: a project is looked up before a
\* feature, and the class id is ignored for a feature
ById(i_proj, i_cls, i_cmd) ==
    IF \E e \in Schema : ~e.feat /\ e.proj = i_proj
    THEN {e \in Schema : /\ ~e.feat
                         /\ e.proj = i_proj
                         /\ e.cls = i_cls
                         /\ e.cmd = i_cmd}
    ELSE {e \in Schema : /\ e.feat
                         /\ e.proj = i_proj
                         /\ e.cmd = i_cmd}

\* what unpack_command gives when it raises
Undecoded ==
    [raised |-> TRUE, ok |-> FALSE, cmd |-> NoCmd, vals |-> <<>>,
     args |-> <<>>, arg0 |-> <<>>]

\* the dictionary made from the values u that _struct_unpack returned
Dico(cmd, u) ==
    IF u.raised THEN Undecoded
    ELSE [raised |-> FALSE, ok |-> TRUE, cmd |-> cmd, vals |-> u.vals,
          args |-> ArgsDict(cmd.argnames, u.vals),
          arg0 |-> IF Len(u.vals) > 0 THEN u.vals[1] ELSE <<>>]

UnpackFound(cmd, rest) ==
    IF Multi(cmd) THEN Undecoded
    ELSE IF Len(cmd.args) = 0
    THEN Dico(cmd, [raised |-> FALSE, vals |-> <<>>])
    ELSE Dico(cmd, struct_unpack(cmd.args, rest))

UnpackIds(buf, found) ==
    IF found = {}
    THEN [Undecoded EXCEPT !.raised = FALSE]
    ELSE UnpackFound(CHOOSE e \in found : TRUE, SubSeq(buf, 5, Len(buf)))

\* unpack_command(buf): raised (CommandError, or the Exception of a
\* multisetting), or the pair (dico, ok); args is dico['args'], arg0 is
\* dico['arg0'], vals the tuple _struct_unpack returned
unpack_command(buf) ==
    IF Len(buf) < 4
    THEN \* struct.unpack('<BBH', buf[:4]) raises struct.error
         Undecoded
    ELSE UnpackIds(buf, ById(buf[1], buf[2], buf[3] + 256 * buf[4]))

\* ------------------------------------------------------------------------
\* Bybop_Device.State: the store, get_value and the waiters
\* ------------------------------------------------------------------------

\* if not pr in self._dict: self._dict[pr] = {}
WithPr(st, pr) == IF Has(st, pr) THEN st ELSE Put(st, pr, <<>>)

\* if not cl in pr_d: pr_d[cl] = {}
WithCl(d, pr, cl) ==
    IF Has(d[pr], cl) THEN d ELSE Put(d, pr, Put(d[pr], cl, <<>>))

\* _getcldic(pr, cl, create=True): the dictionary with the levels made
getcldic(st, pr, cl) == WithCl(WithPr(st, pr), pr, cl)

\* pr_cl[cmd] = v in a dictionary d that has the levels
SetIn(d, pr, cl, cmd, v) ==
    Put(d, pr, Put(d[pr], cl, Put(d[pr][cl], cmd, v)))

\* pr_cl[cmd] = v in the dictionary st
SetCmd(st, pr, cl, cmd, v) == SetIn(getcldic(st, pr, cl), pr, cl, cmd, v)

\* pr_cl[cmd] when it is there, else the empty list or dictionary
OldOf(d, pr, cl, cmd) ==
    IF Has(d[pr][cl], cmd) THEN d[pr][cl][cmd] ELSE <<>>

\* a signal that sets no event
signal_nobody(wl, pr, cl, cmd) == wl

\* a signal that sets the events of every name
signal_everyone(wl, pr, cl, cmd) ==
    [n \in DOMAIN wl |-> [k \in DOMAIN wl[n] |-> TRUE]]

\* _signal_waiting(pr, cl, cmd): set every event registered for the name
signal_waiting(wl, pr, cl, cmd) ==
    IF Has(wl, DottedName(pr, cl, cmd))
    THEN Put(wl, DottedName(pr, cl, cmd),
             [k \in DOMAIN wl[DottedName(pr, cl, cmd)] |-> TRUE])
    ELSE wl

\* State.put(pr, cl, cmd, args): the dictionary left behind
put(st, pr, cl, cmd, args) == SetCmd(st, pr, cl, cmd, args)

\* a put_list that keeps the newest element only
put_list_newest(st, pr, cl, cmd, args) == SetCmd(st, pr, cl, cmd, <<args>>)

\* State.put_list(pr, cl, cmd, args)
put_list(st, pr, cl, cmd, args) ==
    SetCmd(st, pr, cl, cmd,
           Append(OldOf(getcldic(st, pr, cl), pr, cl, cmd), args))

\* a put_map that forgets the other keys
put_map_single(st, pr, cl, cmd, args, key) ==
    SetCmd(st, pr, cl, cmd, Put(<<>>, key, args))

\* State.put_map(pr, cl, cmd, args, key)
put_map(st, pr, cl, cmd, args, key) ==
    SetCmd(st, pr, cl, cmd,
           Put(OldOf(getcldic(st, pr, cl), pr, cl, cmd), key, args))

\* the lookup of get_value in a dictionary d that has the levels
Looked(d, name) ==
    IF Has(d[name[1]][name[2]], name[3])
    THEN [some |-> TRUE, val |-> d[name[1]][name[2]][name[3]], dict |-> d]
    ELSE [some |-> FALSE, val |-> <<>>, dict |-> d]

\* State.get_value(name): None (some = FALSE) or the value, and the
\* dictionary left behind: _getcldic is called with create=True
get_value(st, name) ==
    IF Len(name) # 3
    THEN [some |-> FALSE, val |-> <<>>, dict |-> st]
    ELSE Looked(getcldic(st, name[1], name[2]), name)

\* the value of a slot, without get_value's side effect
Slot(st, name) ==
    IF /\ Len(name) = 3
       /\ Has(st, name[1])
       /\ Has(st[name[1]], name[2])
       /\ Has(st[name[1]][name[2]], name[3])
    THEN [some |-> TRUE, val |-> st[name[1]][name[2]][name[3]]]
    ELSE [some |-> FALSE, val |-> <<>>]

\* one of put, put_list, put_map on the store st and the waiters wl: the
\* slot is written, then the waiters of the name are signalled
StateOp(st, wl, op, pr, cl, cmd, args, key) ==
    [store |-> CASE op = "NONE" -> put(st, pr, cl, cmd, args)
                 [] op = "LIST" -> put_list(st, pr, cl, cmd, args)
                 [] op = "MAP" -> put_map(st, pr, cl, cmd, args, key)
                 [] OTHER -> st,
     waitlist |-> IF op \in {"NONE", "LIST", "MAP"}
                  THEN signal_waiting(wl, pr, cl, cmd)
                  ELSE wl]

\* ------------------------------------------------------------------------
\* Device.data_received(buf, data), the listener of Network
\* ------------------------------------------------------------------------

\* a listener that decodes the payloads of every buffer
FromAnyBuffer(buf) == TRUE

\* buf in self._cmdBuffers
FromCmdBuffer(buf) == buf \in cmdBuffers

\* what data_received leaves when it does nothing, or raises
Untouched(st, wl, raised) ==
    [store |-> st, waitlist |-> wl, put |-> FALSE, raised |-> raised]

\* the if / elif chain on dico['listtype']
Dispatched(r) ==
    [store |-> r.store, waitlist |-> r.waitlist, put |-> TRUE, raised |-> FALSE]

\* data_received once unpack_command has returned or raised u
OnUnpacked(st, wl, u) ==
    IF u.raised THEN Untouched(st, wl, TRUE)
    ELSE IF ~u.ok THEN Untouched(st, wl, FALSE)
    ELSE Dispatched(StateOp(st, wl, u.cmd.listtype, u.cmd.pname, u.cmd.cname,
                            u.cmd.cmdname, u.args, u.arg0))

\* the store and the waiters it leaves, whether it stored, and whether
\* unpack_command raised out of it
DeviceDataReceived(st, wl, buf, data) ==
    IF ~FromCmdBuffer(buf)
    THEN Untouched(st, wl, FALSE)
    ELSE OnUnpacked(st, wl, unpack_command(data))

\* ------------------------------------------------------------------------
\* Network.data_received(type, buf, seq, recv_data), run by the read thread
\* ------------------------------------------------------------------------
Tx(type, buf, seq, data, ok) ==
    [k |-> "tx", type |-> type, buf |-> buf, seq |-> seq, data |-> data, ok |-> ok]
Up(buf, data) ==
    [k |-> "up", type |-> 0, buf |-> buf, seq |-> 0, data |-> data, ok |-> TRUE]

\* number of transmissions the call of sender t has made
ntx(t) ==
    IF call[t].buf \in SendBuffers
    THEN Len(SelectSeq(wire[call[t].buf], LAMBDA e : e.who = t))
    ELSE 0

\* NetworkAL.send_data called by the read thread with a sequence number taken
\* from _get_seq(buf): the counters after the call, what went out, and whether
\* struct.pack raised
Emit(d, type, buf, data, ok) ==
    LET g == GetSeqNow(d, buf)
        fits == PackOk(type, buf, g.ret)
    IN  [dict |-> g.dict, seq |-> g.ret, raised |-> ~fits,
         sent |-> IF fits THEN <<Tx(type, buf, g.ret, data, ok)>> ELSE <<>>]

\* _send_pong(data), when the frame is a ping
Pong(f, ok) ==
    IF f.buf = PingBuffer
    THEN Emit(send_seq, DATA, PongBuffer, f.data, ok)
    ELSE [dict |-> send_seq, seq |-> 0, raised |-> FALSE, sent |-> <<>>]

\* the senders whose registered acknowledge the ACK frame (ackbuf, s) carries
Awaiting(ackbuf, s) ==
    {t \in Senders : /\ pc[t] \in {"loop", "wait"}
                     /\ NeedAck(call[t].type)
                     /\ call[t].buf = ackbuf
                     /\ seqnum(t) = s}

\* type == ACK: unpack the acknowledged seq, set the event if it is awaited
OnAck(f) ==
    LET ackbuf == f.buf - AckOffset IN
    IF ackbuf \notin SendBuffers
    THEN /\ pc' = [pc EXCEPT ![Reader] = "handled"]
         /\ UNCHANGED <<ack_events, sig, ackTry, acked>>
    ELSE IF Len(f.data) # 1
    THEN \* struct.unpack('<B', recv_data) raises struct.error
         /\ pc' = [pc EXCEPT ![Reader] = "raised"]
         /\ UNCHANGED <<ack_events, sig, ackTry, acked>>
    ELSE LET s == f.data[1]
             hit == AckMatches(s, ack_seq[ackbuf])
             w == Awaiting(ackbuf, s)
         IN  /\ ack_events' = IF hit THEN [ack_events EXCEPT ![ackbuf] = TRUE]
                                     ELSE ack_events
             /\ sig' = IF hit THEN {ackbuf} ELSE {}
             /\ acked' = [t \in Senders |-> acked[t] \/ t \in w]
             /\ ackTry' = [t \in Senders |->
                             IF t \in w /\ pc[t] = "wait" /\ ackTry[t] = 0
                             THEN ntx(t) ELSE ackTry[t]]
             /\ pc' = [pc EXCEPT ![Reader] = "handled"]

\* _should_accept(buf, seq): the decision
ShouldAccept(b, seq) == Has(recv_seq, b) /\ AcceptTest(recv_seq[b], seq)

\* _process_data once _should_accept has decided acc and the listener, when
\* called, has left dev
Processed(f, before, acc, dev) ==
    [recv |-> IF acc THEN [recv_seq EXCEPT ![f.buf] = f.seq] ELSE recv_seq,
     done |-> IF acc THEN before \o <<Up(f.buf, f.data)>> ELSE before,
     fed |-> IF Has(recv_seq, f.buf)
             THEN [fed EXCEPT ![f.buf] = Append(@, [seq |-> f.seq, acc |-> acc])]
             ELSE fed,
     store |-> dev.store,
     waitlist |-> dev.waitlist,
     put |-> dev.put,
     raised |-> dev.raised]

\* _process_data: _should_accept, then listener.data_received(buf, recv_data)
ProcessData(f, before) ==
    IF ShouldAccept(f.buf, f.seq)
    THEN Processed(f, before, TRUE,
                   DeviceDataReceived(store, waitlist, f.buf, f.data))
    ELSE Processed(f, before, FALSE, Untouched(store, waitlist, FALSE))

\* Network.data_received(f): the pong when the frame is a ping, then the
\* if / elif chain on the data type.  An exception of the listener
\* (CommandError out of Device.data_received) or of struct leaves
\* data_received at once.
Receive(f) ==
    /\ pc[Reader] = "idle"
    /\ frame' = f
    /\ last0' = IF Has(recv_seq, f.buf) THEN recv_seq[f.buf] ELSE RecvSeqInit
    /\ \E okp \in (IF f.buf = PingBuffer THEN SendtoResults ELSE {TRUE}) :
       LET p == Pong(f, okp) IN
       IF p.raised
       THEN /\ pc' = [pc EXCEPT ![Reader] = "raised"]
            /\ send_seq' = p.dict
            /\ out' = p.sent
            /\ sig' = {}
            /\ allocs' = Logged(allocs, PongBuffer, p.seq)
            /\ UNCHANGED <<recv_seq, ack_events, fed, ackTry, acked, store, waitlist>>
       ELSE
       LET al == IF f.buf = PingBuffer THEN Logged(allocs, PongBuffer, p.seq)
                 ELSE allocs
       IN
       CASE f.type = ACK ->
              /\ OnAck(f)
              /\ send_seq' = p.dict
              /\ out' = p.sent
              /\ allocs' = al
              /\ UNCHANGED <<recv_seq, fed, store, waitlist>>
         [] f.type \in {DATA, DATA_LOW_LATENCY} ->
              \E d \in {ProcessData(f, p.sent)} :
              /\ recv_seq' = d.recv
              /\ fed' = d.fed
              /\ out' = d.done
              /\ store' = d.store
              /\ waitlist' = d.waitlist
              /\ send_seq' = p.dict
              /\ allocs' = al
              /\ sig' = {}
              /\ pc' = [pc EXCEPT ![Reader] =
                          IF d.raised THEN "raised" ELSE "handled"]
              /\ UNCHANGED <<ack_events, ackTry, acked>>
         [] f.type = DATA_WITH_ACK ->
              \E d \in {ProcessData(f, p.sent)} :
              /\ recv_seq' = d.recv
              /\ fed' = d.fed
              /\ store' = d.store
              /\ waitlist' = d.waitlist
              /\ sig' = {}
              /\ UNCHANGED <<ack_events, ackTry, acked>>
              /\ IF d.raised
                 THEN \* _process_data raised: _send_ack is not reached
                      /\ out' = d.done
                      /\ send_seq' = p.dict
                      /\ allocs' = al
                      /\ pc' = [pc EXCEPT ![Reader] = "raised"]
                 ELSE \E oka \in SendtoResults :
                      LET a == Emit(p.dict, ACK, f.buf + AckOffset, <<f.seq>>, oka)
                      IN
                      /\ out' = d.done \o a.sent
                      /\ send_seq' = a.dict
                      /\ allocs' = Logged(al, f.buf + AckOffset, a.seq)
                      /\ pc' = [pc EXCEPT ![Reader] =
                                  IF a.raised THEN "raised" ELSE "handled"]
         [] OTHER ->
              /\ send_seq' = p.dict
              /\ out' = p.sent
              /\ allocs' = al
              /\ sig' = {}
              /\ pc' = [pc EXCEPT ![Reader] = "handled"]
              /\ UNCHANGED <<recv_seq, ack_events, fed, ackTry, acked, store, waitlist>>
    /\ UNCHANGED <<ack_seq, buf_locks, call, gs, base, wire, late>>
    /\ UNCHANGED stVars

\* The read loop, blocked in recvfrom, gets frame f and hands it over
DataReceived(f) ==
    /\ framesLeft > 0
    /\ framesLeft' = framesLeft - 1
    /\ Receive(f)
    /\ UNCHANGED alVars

\* data_received returns to the read loop, which waits for the next frame
DataReturn ==
    /\ pc[Reader] = "handled"
    /\ pc' = [pc EXCEPT ![Reader] = "idle"]
    /\ frame' = NoFrame
    /\ out' = <<>>
    /\ sig' = {}
    /\ last0' = RecvSeqInit
    /\ UNCHANGED alVars
    /\ UNCHANGED <<netVars, call, gs, framesLeft, base, allocs, wire, fed,
                   ackTry, acked, late, store, waitlist, stVars>>

\* ------------------------------------------------------------------------
\* NetworkAL: the frame format, the read loop, stop and start
\* ------------------------------------------------------------------------

\* everything but the transport's own state and the peer's budget
appVars == <<netVars, pc, call, gs, frame, base, allocs, wire, rdGhost,
             ackTry, acked, late, store, waitlist, stVars>>

\* NetworkAL.send_data: struct.pack('<BBBI', type, buf, seq, len(data) + 7)
\* followed by the data
Packed(f) == <<f.type, f.buf, f.seq>> \o LE32(Len(f.data) + 7) \o f.data

\* a datagram in which the frames fs are coalesced
RECURSIVE Datagram(_)
Datagram(fs) ==
    IF Len(fs) = 0 THEN <<>> ELSE Packed(Head(fs)) \o Datagram(Tail(fs))

\* the Python slice d[a:b] for 0 <= a and 0 <= b
Slice(d, a, b) == SubSeq(d, a + 1, IF b < Len(d) THEN b ELSE Len(d))

\* struct.unpack('<BBBI', the_data[0:7])
Header(d) ==
    [type |-> d[1], buf |-> d[2], seq |-> d[3],
     size |-> d[4] + 256 * d[5] + 65536 * d[6] + 16777216 * d[7]]

\* the frame at the head of the bytes d: recv_data = the_data[7:size]
HeadFrame(d) ==
    LET h == Header(d)
    IN  [type |-> h.type, buf |-> h.buf, seq |-> h.seq,
         data |-> Slice(d, 7, h.size)]

DataCall(f) == [k |-> "data", type |-> f.type, buf |-> f.buf, seq |-> f.seq,
                data |-> f.data]
DiscCall == [k |-> "disc", type |-> 0, buf |-> 0, seq |-> 0, data |-> <<>>]

\* the log of the callbacks of one datagram keeps its first MaxLogged entries
\* (bytes whose size field is 0 are handed over again and again)
MaxLogged == MaxCoalesced + 1
Called(log, c) == IF Len(log) < MaxLogged THEN Append(log, c) ELSE log

\* a read loop that never tells its listener
DisconnectSilent(log) == log

\* self._listener.did_disconnect(), in the log of the callbacks
Disconnect(log) == Append(log, DiscCall)

\* NetworkAL.stop(), also reached from Device.did_disconnect through
\* Device.stop and Network.stop
StopNow ==
    /\ alive' = IF running THEN FALSE ELSE alive
    /\ send_sock' = IF running THEN "closed" ELSE send_sock
    /\ stopped' = (stopped \/ running)

\* while self._alive:
LoopWhile ==
    /\ loop = "while"
    /\ pc[Reader] = "idle"
    /\ loop' = IF alive THEN "recvfrom" ELSE "close"
    /\ why' = IF alive THEN why ELSE "stopped"
    /\ UNCHANGED <<appVars, framesLeft, alive, running, send_sock, recv_sock,
                   the_data, ctl, opsLeft, stopped, rx, calls>>

\* recvfrom returns a datagram in which the frames fs are coalesced
LoopRecv(fs) ==
    /\ loop = "recvfrom"
    /\ framesLeft > 0
    /\ framesLeft' = framesLeft - 1
    /\ the_data' = Datagram(fs)
    /\ rx' = fs
    /\ calls' = <<>>
    /\ loop' = "frames"
    /\ UNCHANGED <<appVars, alive, running, send_sock, recv_sock, why, ctl,
                   opsLeft, stopped>>

\* recvfrom returns the bytes d, whatever the peer put into the datagram
LoopRecvBytes(d) ==
    /\ loop = "recvfrom"
    /\ framesLeft > 0
    /\ framesLeft' = framesLeft - 1
    /\ the_data' = d
    /\ rx' = <<>>
    /\ calls' = <<>>
    /\ loop' = "frames"
    /\ UNCHANGED <<appVars, alive, running, send_sock, recv_sock, why, ctl,
                   opsLeft, stopped>>

\* recvfrom raises: the read timeout of 5 seconds, or a socket error; break.
\* (The 5 seconds cannot elapse while start(), which created the thread, has
\* only its last assignment left to run.)
LoopRecvFails(w) ==
    /\ loop = "recvfrom"
    /\ w = "timeout" => ctl # "starting"
    /\ loop' = "close"
    /\ why' = w
    /\ UNCHANGED <<appVars, framesLeft, alive, running, send_sock, recv_sock,
                   the_data, ctl, opsLeft, stopped, rx, calls>>

\* one pass of 'while the_data:': unpack the header, call the listener,
\* drop the frame; struct.error on fewer than 7 bytes ends the thread
LoopFrame ==
    /\ loop = "frames"
    /\ pc[Reader] = "idle"
    /\ Len(the_data) > 0
    /\ IF Len(the_data) < 7
       THEN /\ pc' = [pc EXCEPT ![Reader] = "raised"]
            /\ UNCHANGED <<netVars, call, gs, frame, base, allocs, wire,
                           rdGhost, ackTry, acked, late, store, waitlist, stVars,
                           the_data, calls>>
       ELSE \E f \in {HeadFrame(the_data)} :
            /\ Receive(f)
            /\ calls' = Called(calls, DataCall(f))
            /\ the_data' = Slice(the_data, Header(the_data).size, Len(the_data))
    /\ UNCHANGED <<framesLeft, alive, running, send_sock, recv_sock, loop, why,
                   ctl, opsLeft, stopped, rx>>

\* the datagram is exhausted: back to the test of the outer loop
LoopNext ==
    /\ loop = "frames"
    /\ pc[Reader] = "idle"
    /\ Len(the_data) = 0
    /\ loop' = "while"
    /\ UNCHANGED <<appVars, framesLeft, alive, running, send_sock, recv_sock,
                   the_data, why, ctl, opsLeft, stopped, rx, calls>>

\* after the loop: self._recv_sock.close(); self._listener.did_disconnect(),
\* which is Device.did_disconnect: self.stop()
LoopExit ==
    /\ loop = "close"
    /\ recv_sock' = "closed"
    /\ calls' = Disconnect(calls)
    /\ StopNow
    /\ loop' = "unrun"
    /\ UNCHANGED <<appVars, framesLeft, running, the_data, why, ctl, opsLeft, rx>>

\* self._running = False: the thread ends
LoopUnrun ==
    /\ loop = "unrun"
    /\ running' = FALSE
    /\ loop' = "ended"
    /\ UNCHANGED <<appVars, framesLeft, alive, send_sock, recv_sock, the_data,
                   why, ctl, opsLeft, stopped, rx, calls>>

\* the application thread is between two calls
CtlIdle == ctl \in {"ready", "stopped", "started"}

\* the application calls stop()
Stop ==
    /\ CtlIdle
    /\ opsLeft > 0
    /\ opsLeft' = opsLeft - 1
    /\ StopNow
    /\ ctl' = "stopped"
    /\ UNCHANGED <<appVars, framesLeft, running, recv_sock, loop, the_data,
                   why, rx, calls>>

\* the application calls start() (or Network.restart()): nothing when
\* _running; else _alive = True, two new sockets, a new read thread
Start ==
    /\ CtlIdle
    /\ opsLeft > 0
    /\ opsLeft' = opsLeft - 1
    /\ IF running
       THEN /\ ctl' = "started"
            /\ UNCHANGED <<alive, send_sock, recv_sock, loop, the_data, why,
                           stopped, rx, calls, late>>
       ELSE /\ ctl' = "starting"
            /\ alive' = TRUE
            /\ send_sock' = "open"
            /\ recv_sock' = "open"
            /\ loop' = "while"
            /\ the_data' = <<>>
            /\ why' = ""
            /\ stopped' = FALSE
            /\ rx' = <<>>
            /\ calls' = <<>>
            /\ late' = [t \in Senders |-> FALSE]
    /\ UNCHANGED <<netVars, pc, call, gs, frame, base, allocs, wire, rdGhost,
                   ackTry, acked, store, waitlist, stVars, framesLeft,
                   running>>

\* the last statement of start(): self._running = True
StartDone ==
    /\ ctl = "starting"
    /\ running' = TRUE
    /\ ctl' = "started"
    /\ UNCHANGED <<appVars, framesLeft, alive, send_sock, recv_sock, loop,
                   the_data, why, opsLeft, stopped, rx, calls>>

\* ------------------------------------------------------------------------
\* Bybop_Device.State: wait_for and the calls of application threads.  Every
\* access to _dict and _waitlist is made under self._lock, so each block
\* 'with self._lock:' is one action.
\* ------------------------------------------------------------------------

\* del d[k]
Remove(d, k) == [x \in (DOMAIN d) \ {k} |-> d[x]]

\* self._waitlist[name][wid] = event, in a registry wl that has the name
Listed(wl, name, wid) == Put(wl, name, Put(wl[name], wid, FALSE))

\* lines 76-78 of wait_for: the event under a new wait id
Registered(wl, name, wid) ==
    IF Has(wl, name) THEN Listed(wl, name, wid)
    ELSE Listed(Put(wl, name, <<>>), name, wid)

\* del self._waitlist[name][wid], in a registry wl whose name is not empty
Dropped(wl, name) == IF DOMAIN wl[name] = {} THEN Remove(wl, name) ELSE wl

\* lines 85-87 of wait_for: the event leaves the registry, and the name with
\* its last event
Unregistered(wl, name, wid) ==
    Dropped(Put(wl, name, Remove(wl[name], wid)), name)

\* wait_for(name, timeout), first block: a new event is registered
WaitFor(w, name, timeout) ==
    /\ wt[w].pc = "start"
    /\ waitlist' = Registered(waitlist, name, waitid)
    /\ waitid' = waitid + 1
    /\ wt' = [wt EXCEPT ![w] = [pc |-> "blocked", name |-> name,
                                timeout |-> timeout, wid |-> waitid,
                                res |-> FALSE, regAt |-> Len(plog),
                                retAt |-> 0, endAt |-> 0]]
    /\ UNCHANGED <<netVars, pc, call, gs, frame, framesLeft, base, allocs,
                   wire, rdGhost, ackTry, acked, alVars, late, store, plog,
                   putsLeft, dcall, codec>>

\* res = event.wait(timeout)
WaitReturn(w) ==
    /\ wt[w].pc = "blocked"
    /\ \E r \in WaitResults(waitlist[wt[w].name][wt[w].wid], wt[w].timeout) :
          wt' = [wt EXCEPT ![w].pc = "woken", ![w].res = r,
                           ![w].retAt = Len(plog)]
    /\ UNCHANGED <<netVars, pc, call, gs, frame, framesLeft, base, allocs,
                   wire, rdGhost, ackTry, acked, alVars, late, store,
                   waitlist, waitid, plog, putsLeft, dcall, codec>>

\* wait_for, second block: the event is unregistered; return res
WaitUnregister(w) ==
    /\ wt[w].pc = "woken"
    /\ waitlist' = Unregistered(waitlist, wt[w].name, wt[w].wid)
    /\ wt' = [wt EXCEPT ![w].pc = "done", ![w].endAt = Len(plog)]
    /\ UNCHANGED <<netVars, pc, call, gs, frame, framesLeft, base, allocs,
                   wire, rdGhost, ackTry, acked, alVars, late, store, waitid,
                   plog, putsLeft, dcall, codec>>

\* an application thread calls put, put_list or put_map (op)
StateCall(op, name, args, key) ==
    /\ putsLeft > 0
    /\ putsLeft' = putsLeft - 1
    /\ \E r \in {StateOp(store, waitlist, op, name[1], name[2], name[3],
                         args, key)} :
          /\ store' = r.store
          /\ waitlist' = r.waitlist
    /\ plog' = Append(plog, [op |-> op, name |-> name, args |-> args,
                             key |-> key])
    /\ UNCHANGED <<netVars, pc, call, gs, frame, framesLeft, base, allocs,
                   wire, rdGhost, ackTry, acked, alVars, late, waitid, wt,
                   dcall, codec>>

\* an application thread calls get_value(name)
StateGet(name) ==
    /\ putsLeft > 0
    /\ putsLeft' = putsLeft - 1
    /\ store' = get_value(store, name).dict
    /\ UNCHANGED <<netVars, pc, call, gs, frame, framesLeft, base, allocs,
                   wire, rdGhost, ackTry, acked, alVars, late, waitlist,
                   waitid, wt, plog, dcall, codec>>

\* an application thread calls duplicate(): a copy of the dictionary
StateDuplicate ==
    /\ putsLeft > 0
    /\ putsLeft' = putsLeft - 1
    /\ UNCHANGED <<netVars, pc, call, gs, frame, framesLeft, base, allocs,
                   wire, rdGhost, ackTry, acked, alVars, late, store,
                   waitlist, waitid, wt, plog, dcall, codec>>

\* ------------------------------------------------------------------------
\* Device.send_data(name, *args, **kwargs), called by the application thread
\* t.  The device is one of the Jumping family: ackBuffer=11, nackBuffer=10,
\* no urgBuffer.
\* ------------------------------------------------------------------------

ackBuffer == 11
nackBuffer == 10
urgBuffer == -1
DefaultRetries == 5

\* pr, cl, cm = name.split('.') raises ValueError unless the name has three
\* components; then pack_command
DevPacked(name, args) ==
    IF Len(name) # 3 THEN PackFailed("ValueError")
    ELSE pack_command(name[1], name[2], name[3], args)

\* the if / elif chain on the buffer type pack_command recommends
Route(buf) ==
    CASE buf = "NON_ACK" -> [bufno |-> nackBuffer, datatype |-> DATA]
      [] buf = "ACK" -> [bufno |-> ackBuffer, datatype |-> DATA_WITH_ACK]
      [] buf = "HIGH_PRIO" -> [bufno |-> urgBuffer, datatype |-> DATA_LOW_LATENCY]
      [] OTHER -> [bufno |-> -1, datatype |-> 0]

\* retries = kwargs['retries'] if 'retries' in kwargs else 5
Retries(kw) == IF Len(kw) > 0 THEN kw[1] ELSE DefaultRetries

\* send_data ends before it reaches the Network: it returns ERROR, or the
\* exception 'how' leaves it
DevSendEnds(t, how) ==
    /\ pc' = [pc EXCEPT ![t] = IF how \in {CommandError, "NoBuffer"}
                                THEN "done" ELSE "raised"]
    /\ UNCHANGED <<netVars, call, gs, frame, framesLeft, base, allocs, wire,
                   rdGhost, ackTry, acked, alVars, late, store, waitlist>>

\* send_data once the name was split and pack_command has returned or
\* raised r
DevSendPacked(t, r, kw) ==
    IF r.exc # NoExc THEN DevSendEnds(t, r.exc)
    ELSE IF Route(r.buf).bufno = -1 THEN DevSendEnds(t, "NoBuffer")
    ELSE SendBegin(t, [buf |-> Route(r.buf).bufno, data |-> r.bytes,
                       type |-> Route(r.buf).datatype, timeout |-> "finite",
                       tries |-> Retries(kw) + 1])

\* why send_data ended before it reached the Network, or "no"
DevEarly(r) ==
    IF r.exc # NoExc THEN r.exc
    ELSE IF Route(r.buf).bufno = -1 THEN "NoBuffer" ELSE "no"

DevSendData(t, name, args, kw) ==
    /\ pc[t] = "start"
    /\ ~dcall[t].made
    /\ \E r \in {DevPacked(name, args)} :
          /\ DevSendPacked(t, r, kw)
          /\ dcall' = [dcall EXCEPT ![t] = [name |-> name, args |-> args,
                                            kw |-> kw, made |-> TRUE,
                                            early |-> DevEarly(r)]]
    /\ UNCHANGED <<waitid, wt, plog, putsLeft, codec>>

\* ------------------------------------------------------------------------
\* A thread that calls pack_command and hands the bytes to unpack_command
\* ------------------------------------------------------------------------

\* cmd, buf, to = pack_command(pr, cl, cm, *args)
CodecPack ==
    /\ codec.pc = "start"
    /\ codec' = [codec EXCEPT
                   !.pc = "packed",
                   !.packed = pack_command(codec.name[1], codec.name[2],
                                           codec.name[3], codec.args)]
    /\ UNCHANGED <<netVars, pc, call, gs, frame, framesLeft, base, allocs,
                   wire, rdGhost, ackTry, acked, alVars, late, store,
                   waitlist, waitid, wt, plog, putsLeft, dcall>>

\* dico, ok = unpack_command(cmd), when pack_command returned
CodecUnpack ==
    /\ codec.pc = "packed"
    /\ codec.packed.exc = NoExc
    /\ codec' = [codec EXCEPT
                   !.pc = "unpacked",
                   !.unpacked = unpack_command(codec.packed.bytes)]
    /\ UNCHANGED <<netVars, pc, call, gs, frame, framesLeft, base, allocs,
                   wire, rdGhost, ackTry, acked, alVars, late, store,
                   waitlist, waitid, wt, plog, putsLeft, dcall>>

\* ------------------------------------------------------------------------
\* Inputs
\* ------------------------------------------------------------------------
\* the payload of the frames: common.CommonState.BatteryStateChanged(7)
Payload == <<0, 5, 1, 0, 7>>

\* calls of send_data: acknowledged data on the device's ackBuffer with every
\* number of tries, plain data on every send buffer, and a call on a buffer
\* that was not declared (12, the urgBuffer a JumpingSumo does not have)
Calls ==
    [buf : {11}, data : {Payload}, type : {DATA_WITH_ACK},
     timeout : {"finite"}, tries : 1..MaxTries]
    \cup
    [buf : SendBuffers \cup {12}, data : {Payload}, type : {DATA},
     timeout : {"finite"}, tries : {MaxTries}]

AckFrame(buf, payload) == [type |-> ACK, buf |-> buf, seq |-> 0, data |-> payload]
\* frames of the peer while application threads send: acknowledges of buffer
\* 11 for a fresh and for a wrapped sequence number, an acknowledge of buffer
\* 10, one on the ping buffer, one without payload, one of an undeclared buffer
Frames ==
    {AckFrame(139, <<0>>), AckFrame(139, <<255>>), AckFrame(138, <<0>>),
     AckFrame(0, <<0>>), AckFrame(139, <<>>), AckFrame(140, <<0>>)}

\* ------------------------------------------------------------------------
\* Specification: application threads and the read thread
\* ------------------------------------------------------------------------
Init ==
    /\ \E start \in {0, ByteMax} : NetInit([b \in SendBuffers |-> start])
    /\ GhostInit
    /\ ThreadInit
    /\ ALInit(0)
    /\ DevInit
    /\ framesLeft = MaxFrames

Next ==
    \/ \E t \in Senders : \E a \in Calls : SendData(t, a)
    \/ \E t \in Senders : GetSeqIncLoad(t)
    \/ \E t \in Senders : GetSeqIncStore(t)
    \/ \E t \in Senders : GetSeqModLoad(t)
    \/ \E t \in Senders : GetSeqModStore(t)
    \/ \E t \in Senders : SendLock(t)
    \/ \E t \in Senders : SendTry(t)
    \/ \E t \in Senders : SendWait(t)
    \/ \E f \in Frames : DataReceived(f)
    \/ DataReturn

Spec == Init /\ [][Next]_vars

\* ------------------------------------------------------------------------
\* Specification: the read thread alone, every kind of inbound frame
\* ------------------------------------------------------------------------
DataTypes == {DATA, DATA_LOW_LATENCY, DATA_WITH_ACK}

\* frames of every data type and of an unknown type (0), on the ping buffer, a
\* declared receive buffer, an undeclared buffer and a buffer above 127
RecvFrames ==
    [type : {0, ACK} \cup DataTypes, buf : {0, 5, 126, 200},
     seq : {0, 1, 250}, data : {Payload}]

\* the counters of the pong buffer and of the acknowledge buffer of 126 after
\* 255 pings and 255 acknowledged frames with seq 255 on buffer 126
AgedCounters == (PongBuffer :> ByteMax) @@ ((126 + AckOffset) :> ByteMax)

InitRecv ==
    /\ \E aged \in BOOLEAN :
          NetInit(IF aged THEN [b \in SendBuffers |-> 0] @@ AgedCounters
                          ELSE [b \in SendBuffers |-> 0])
    /\ GhostInit
    /\ ThreadInit
    /\ ALInit(0)
    /\ DevInit
    /\ framesLeft = MaxFrames

NextRecv ==
    \/ \E f \in RecvFrames : DataReceived(f)
    \/ DataReturn

SpecRecv == InitRecv /\ [][NextRecv]_vars

\* ------------------------------------------------------------------------
\* Specification: the read thread alone, a run of data frames on buffer 126
\* ------------------------------------------------------------------------
FeedSeqs == {250, 251, 252, 0, 1}
FeedFrames == [type : {DATA}, buf : {126}, seq : FeedSeqs, data : {Payload}]

InitFeed ==
    /\ NetInit([b \in SendBuffers |-> 0])
    /\ GhostInit
    /\ ThreadInit
    /\ ALInit(0)
    /\ DevInit
    /\ framesLeft = MaxFeed

NextFeed ==
    \/ \E f \in FeedFrames : DataReceived(f)
    \/ DataReturn

SpecFeed == InitFeed /\ [][NextFeed]_vars

\* ------------------------------------------------------------------------
\* Specification: send_data with every kind of argument
\* ------------------------------------------------------------------------

\* calls of send_data with every data type, on the declared buffer 11 and on
\* the undeclared buffer 12, with and without timeout, with tries from 0
SendCalls ==
    [buf : {11}, data : {Payload}, type : DataTypes,
     timeout : {"finite", "none"}, tries : 0..(MaxTries - 1)]
    \cup
    [buf : {12}, data : {Payload}, type : {DATA, DATA_WITH_ACK},
     timeout : {"finite"}, tries : {1}]

\* what the second thread sends meanwhile on the same buffer
OtherCalls ==
    [buf : {11}, data : {Payload}, type : {DATA, DATA_WITH_ACK},
     timeout : {"finite"}, tries : {1}]

SendCallsOf(t) == IF t = "s1" THEN SendCalls ELSE OtherCalls

\* the peer acknowledges the first or the second frame of buffer 11, or not
SendFrames == {AckFrame(139, <<0>>), AckFrame(139, <<1>>)}

InitSend ==
    /\ NetInit([b \in SendBuffers |-> 0])
    /\ GhostInit
    /\ ThreadInit
    /\ ALInit(0)
    /\ DevInit
    /\ framesLeft = MaxAcks

\* the steps of a send_data call that is under way
SendStep(t) ==
    \/ GetSeqIncLoad(t)
    \/ GetSeqIncStore(t)
    \/ GetSeqModLoad(t)
    \/ GetSeqModStore(t)
    \/ SendLock(t)
    \/ SendTry(t)
    \/ SendWait(t)

NextSend ==
    \/ \E t \in Senders : \E a \in SendCallsOf(t) : SendData(t, a)
    \/ \E t \in Senders : SendStep(t)
    \/ \E f \in SendFrames : DataReceived(f)
    \/ DataReturn

\* every thread that can run does run; the peer sends what and when it likes
SendFair ==
    /\ \A t \in Senders : WF_vars(SendStep(t))
    /\ WF_vars(DataReturn)

SpecSend == InitSend /\ [][NextSend]_vars /\ SendFair

\* ------------------------------------------------------------------------
\* Specification: the read loop alone, datagrams of coalesced frames
\* ------------------------------------------------------------------------

\* command payloads: BatteryStateChanged(42), AllStatesChanged(),
\* ProductNameChanged("A"), MassStorageStateListChanged(1, "A"); then a
\* header of three bytes, a string without NUL, a missing argument, an
\* unknown class, and no payload at all
CmdPayloads ==
    { <<0, 5, 1, 0, 42>>, <<0, 5, 0, 0>>, <<0, 3, 2, 0, 65, 0>>,
      <<0, 5, 2, 0, 1, 65, 0>>,
      <<0, 5, 1>>, <<0, 3, 2, 0, 65>>, <<0, 5, 1, 0>>, <<0, 9, 0, 0>>, <<>> }

\* frames of the peer: commands on the command buffer 126, an acknowledged
\* command, an acknowledged frame on buffer 200 and a frame on buffer 5
LoopFrames ==
    [type : {DATA}, buf : {126}, seq : {1}, data : CmdPayloads]
    \cup
    [type : {DATA_WITH_ACK}, buf : {126, 200}, seq : {1}, data : {Payload}]
    \cup
    [type : {DATA_LOW_LATENCY}, buf : {5}, seq : {1}, data : {Payload}]

\* the sequences of 1 to n frames
Coalesced(n) == UNION {[1..k -> LoopFrames] : k \in 1..n}

\* the datagrams the peer sends
LoopDatagrams == Coalesced(MaxCoalesced)

\* how recvfrom can raise
RecvErrors == {"timeout", "error"}

InitLoop ==
    /\ NetInit([b \in SendBuffers |-> 0])
    /\ GhostInit
    /\ ThreadInit
    /\ ALInit(0)
    /\ DevInit
    /\ framesLeft = MaxDatagrams

\* recvfrom returns or raises
LoopRecvAny(menu) ==
    \/ \E fs \in menu : LoopRecv(fs)
    \/ \E w \in RecvErrors : LoopRecvFails(w)

\* the steps of the read thread
LoopStep(menu) ==
    \/ LoopWhile
    \/ LoopRecvAny(menu)
    \/ LoopFrame
    \/ DataReturn
    \/ LoopNext
    \/ LoopExit
    \/ LoopUnrun

NextLoop == LoopStep(LoopDatagrams)

\* the read thread is scheduled, and recvfrom returns within its timeout
LoopFair(menu) == WF_vars(LoopStep(menu))

SpecLoop == InitLoop /\ [][NextLoop]_vars /\ LoopFair(LoopDatagrams)

\* ------------------------------------------------------------------------
\* Specification: the life of the transport: the read loop, an application
\* thread that stops and restarts, and a thread that sends
\* ------------------------------------------------------------------------

\* what the thread sends: an acknowledged and a plain command, tries 0 and 1
ALCalls ==
    [buf : {11}, data : {Payload}, type : {DATA, DATA_WITH_ACK},
     timeout : {"finite"}, tries : {0, 1}]

\* datagrams of the peer: a battery event, and an event cut after three bytes
ALDatagrams ==
    { <<[type |-> DATA, buf |-> 126, seq |-> 1, data |-> Payload]>>,
      <<[type |-> DATA, buf |-> 126, seq |-> 1, data |-> <<0, 5, 1>>]>> }

InitAL ==
    /\ NetInit([b \in SendBuffers |-> 0])
    /\ GhostInit
    /\ ThreadInit
    /\ ALInit(MaxOps)
    /\ DevInit
    /\ framesLeft = MaxDatagrams

NextAL ==
    \/ Stop
    \/ Start
    \/ StartDone
    \/ LoopStep(ALDatagrams)
    \/ \E a \in ALCalls : SendData("s1", a)
    \/ SendStep("s1")

ALFair ==
    /\ LoopFair(ALDatagrams)
    /\ WF_vars(StartDone)
    /\ WF_vars(SendStep("s1"))

SpecAL == InitAL /\ [][NextAL]_vars /\ ALFair

\* ------------------------------------------------------------------------
\* Specification: the read loop alone, datagrams of arbitrary bytes
\* ------------------------------------------------------------------------

\* a well-formed frame: BatteryStateChanged(7) on the command buffer 126
GoodBytes == Packed([type |-> DATA, buf |-> 126, seq |-> 1, data |-> Payload])

\* datagrams of the peer: a well-formed frame; the same followed by a
\* fragment of three bytes; headers on buffer 5 whose size field is 0, is 3,
\* or exceeds the bytes that follow; an acknowledged frame on buffer 200; an
\* ACK of send buffer 11 without payload
RawDatagrams ==
    { GoodBytes,
      GoodBytes \o <<2, 126, 1>>,
      <<2, 5, 1, 0, 0, 0, 0>>,
      <<2, 5, 1, 3, 0, 0, 0>>,
      <<2, 5, 1, 100, 0, 0, 0>> \o Payload,
      Packed([type |-> DATA_WITH_ACK, buf |-> 200, seq |-> 1, data |-> Payload]),
      Packed(AckFrame(139, <<>>)) }

InitRaw ==
    /\ NetInit([b \in SendBuffers |-> 0])
    /\ GhostInit
    /\ ThreadInit
    /\ ALInit(0)
    /\ DevInit
    /\ framesLeft = MaxDatagrams

\* the steps of the read thread
RawStep ==
    \/ LoopWhile
    \/ \E d \in RawDatagrams : LoopRecvBytes(d)
    \/ \E w \in RecvErrors : LoopRecvFails(w)
    \/ LoopFrame
    \/ DataReturn
    \/ LoopNext
    \/ LoopExit
    \/ LoopUnrun

NextRaw == RawStep

\* the read thread is scheduled, and recvfrom returns within its timeout
RawFair == WF_vars(RawStep)

SpecRaw == InitRaw /\ [][NextRaw]_vars /\ RawFair

\* ------------------------------------------------------------------------
\* Specification: the State alone: two threads in wait_for, and application
\* threads that call put, put_list, put_map and get_value
\* ------------------------------------------------------------------------

\* number of calls of put, put_list, put_map and get_value in SpecStore, and
\* of put and put_map in SpecState
MaxPuts == 4
MaxSignals == 2

BatteryName == DottedName("common", "CommonState", "BatteryStateChanged")
StorageName == DottedName("common", "CommonState", "MassStorageStateListChanged")
ScanName == DottedName("ardrone3", "NetworkState", "WifiScanListChanged")
\* a name that is never written, a name of two components
AllStatesName == DottedName("common", "CommonState", "AllStatesChanged")
ShortName == <<"common", "CommonState">>

\* arguments of put on BatteryName, of put_map on StorageName (keyed by
\* mass_storage_id) and of put_list on ScanName
BatteryArgs == {[percent |-> 7], [percent |-> 8]}
StorageArgs == [mass_storage_id : {0, 1}, name : {<<65>>, <<66>>}]
OneStorage == [mass_storage_id |-> 0, name |-> <<65>>]
ScanArgs == {[ssid |-> <<65>>, rssi |-> -40], [ssid |-> <<65>>, rssi |-> -50]}

\* what the two waiting threads wait for
WaitCalls(w) ==
    IF w = "w1"
    THEN [name : {BatteryName, AllStatesName}, timeout : {"finite", "none"}]
    ELSE [name : {BatteryName, StorageName}, timeout : {"finite"}]

GetNames == {BatteryName, StorageName, ScanName, AllStatesName, ShortName}

InitState ==
    /\ NetInit([b \in SendBuffers |-> 0])
    /\ GhostInit
    /\ ThreadInit
    /\ ALInit(0)
    /\ DevInitWith(MaxSignals)
    /\ framesLeft = 0

WaitStep(w) == WaitReturn(w) \/ WaitUnregister(w)

NextState ==
    \/ \E w \in Waiters : \E c \in WaitCalls(w) : WaitFor(w, c.name, c.timeout)
    \/ \E w \in Waiters : WaitStep(w)
    \/ \E a \in BatteryArgs : StateCall("NONE", BatteryName, a, <<>>)
    \/ StateCall("MAP", StorageName, OneStorage, 0)

\* a thread in wait_for is scheduled
StateFair == \A w \in Waiters : WF_vars(WaitStep(w))

SpecState == InitState /\ [][NextState]_vars /\ StateFair

\* ------------------------------------------------------------------------
\* Specification: the store of the State alone: application threads call
\* put, put_list, put_map and get_value, one call after the other (each call
\* holds the lock of the State)
\* ------------------------------------------------------------------------

InitStore ==
    /\ NetInit([b \in SendBuffers |-> 0])
    /\ GhostInit
    /\ ThreadInit
    /\ ALInit(0)
    /\ DevInitWith(MaxPuts)
    /\ framesLeft = 0

NextStore ==
    \/ \E a \in BatteryArgs : StateCall("NONE", BatteryName, a, <<>>)
    \/ \E a \in StorageArgs : StateCall("MAP", StorageName, a, a.mass_storage_id)
    \/ \E a \in ScanArgs : StateCall("LIST", ScanName, a, <<>>)
    \/ \E n \in GetNames : StateGet(n)
    \/ StateDuplicate

SpecStore == InitStore /\ [][NextStore]_vars

\* ------------------------------------------------------------------------
\* Specification: the Device as listener: the read thread hands frames of
\* commands to Device.data_received while a thread waits in wait_for
\* ------------------------------------------------------------------------

\* number of frames received
MaxDevFrames == 3

\* BatteryStateChanged(7), (8); MassStorageStateListChanged(0, "A"),
\* (1, "B"); WifiScanListChanged("A", -40); AllStatesChanged(); a class and a
\* project that the schema does not have; BatteryStateChanged without its
\* argument
DevPayloads ==
    { <<0, 5, 1, 0, 7>>, <<0, 5, 1, 0, 8>>,
      <<0, 5, 2, 0, 0, 65, 0>>, <<0, 5, 2, 0, 1, 66, 0>>,
      <<1, 14, 0, 0, 65, 0, 216>>,
      <<0, 5, 0, 0>>,
      <<0, 9, 0, 0>>, <<7, 0, 0, 0>>,
      <<0, 5, 1, 0>> }

\* buffers that are not command buffers of the device
OtherBuffers == {5, 200}

DevFrames == [type : {DATA}, buf : {126, 5}, seq : {1, 2}, data : DevPayloads]

DevWaits == [name : {BatteryName, ScanName}, timeout : {"finite"}]

InitDev ==
    /\ NetInit([b \in SendBuffers |-> 0])
    /\ GhostInit
    /\ ThreadInit
    /\ ALInit(0)
    /\ DevInit
    /\ framesLeft = MaxDevFrames

NextDev ==
    \/ \E f \in DevFrames : DataReceived(f)
    \/ DataReturn
    \/ \E c \in DevWaits : WaitFor("w1", c.name, c.timeout)
    \/ WaitStep("w1")

SpecDev == InitDev /\ [][NextDev]_vars

\* ------------------------------------------------------------------------
\* Specification: the codec alone: a command name and an argument tuple are
\* packed, and the bytes are unpacked
\* ------------------------------------------------------------------------

\* the largest integral value that the model packs as a float: 2^24 + 3
MaxFloat == 16777219

\* values of a float argument: small ones, and those around 2^24, where
\* singles are two apart
FloatValues == {0, 1, 3, 150, 16777215} \cup (16777216..MaxFloat)

\* strings: '', 'A', 'AB', and 'A\0B'
Strings == {<<>>, <<65>>, <<65, 66>>}
NulString == <<65, 0, 66>>

CodecStart(name, args) ==
    codec = [NoCodec EXCEPT !.pc = "start", !.name = name, !.args = args]

\* the calls of pack_command, command by command: argument tuples of the
\* declared count, with values in and out of the range of their kind, and
\* tuples that are too short or too long
CodecCalls ==
    \/ \E v \in {-1, 0, 7, 255, 256} : CodecStart(BatteryName, <<v>>)
    \/ \E a \in {<<>>, <<7, 8>>} : CodecStart(BatteryName, a)
    \/ \E v \in Strings \cup {NulString} :
          CodecStart(DottedName("common", "Common", "CurrentDate"), <<v>>)
    \/ \E v \in FloatValues :
          CodecStart(DottedName("ardrone3", "PilotingSettings", "MaxAltitude"), <<v>>)
    \/ \E a \in {<<>>, <<3, 3>>} :
          CodecStart(DottedName("ardrone3", "PilotingSettings", "MaxAltitude"), a)
    \/ \E i \in {0, 1} : \E v \in Strings : CodecStart(StorageName, <<i, v>>)
    \/ CodecStart(StorageName, <<1>>)
    \/ \E v \in Strings : \E r \in {-128, -40, 127, 128} :
          CodecStart(ScanName, <<v, r>>)
    \/ \E a \in {<<1, -1, 100>>, <<0, 50, -100>>, <<1, 50>>, <<1, 2, 3, 4>>} :
          CodecStart(DottedName("jpsumo", "Piloting", "PCMD"), a)
    \/ \E a \in {<<>>, <<1>>, <<1, 2>>} : \E n \in {<<"common", "Common", "AllStates">>, <<"ardrone3", "Piloting", "Emergency">>, <<"generic", "", "default">>, <<"generic", "any", "SetDroneSettings">>, <<"wifi", "any", "scan">>, <<"common", "Nope", "AllStates">>, <<"common", "Common", "Nope">>, <<"nope", "Common", "AllStates">>, <<"wifi", "", "nope">>} :
          CodecStart(n, a)

InitCodec ==
    /\ NetInit([b \in SendBuffers |-> 0])
    /\ GhostInit
    /\ ThreadInit
    /\ ALInit(0)
    /\ DevStart(0)
    /\ framesLeft = 0
    /\ CodecCalls

NextCodec == CodecPack \/ CodecUnpack

SpecCodec == InitCodec /\ [][NextCodec]_vars

\* ------------------------------------------------------------------------
\* Specification: one application thread calls Device.send_data while the
\* read thread receives the acknowledge of the first frame of buffer 11
\* ------------------------------------------------------------------------

\* largest value of the keyword argument retries
MaxRetries == 1

\* kwargs: no retries given, or retries = 0 .. MaxRetries
Kwargs == {<<>>} \cup {<<r>> : r \in 0..MaxRetries}

DevSender == "s1"

\* the calls of Device.send_data, command by command: a command of each
\* buffer type, a command with a missing argument, unknown names, a name of
\* two components, a command with a multisetting argument
DevSendCalls(t, kw) ==
    \/ \E a \in {<<1, 50, 0>>, <<1>>} :
          DevSendData(t, DottedName("jpsumo", "Piloting", "PCMD"), a, kw)
    \/ \E v \in {<<65>>} :
          DevSendData(t, DottedName("common", "Common", "CurrentDate"), <<v>>, kw)
    \/ \E n \in {<<"common", "Common", "AllStates">>,
                  <<"ardrone3", "Piloting", "Emergency">>,
                  <<"common", "Common", "Nope">>,
                  <<"wifi", "", "scan">>,
                  <<"wifi", "scan">>} :
          DevSendData(t, n, <<>>, kw)
    \/ \E a \in {<<1>>} :
          \E n \in {<<"wifi", "", "scan">>, <<"wifi", "scan">>,
                     <<"generic", "", "SetDroneSettings">>} :
              DevSendData(t, n, a, kw)

DevSendFrames == {AckFrame(139, <<0>>)}

InitDevSend ==
    /\ NetInit([b \in SendBuffers |-> 0])
    /\ GhostInit
    /\ ThreadInit
    /\ ALInit(0)
    /\ DevInit
    /\ framesLeft = MaxAcks

NextDevSend ==
    \/ \E kw \in Kwargs : DevSendCalls(DevSender, kw)
    \/ SendStep(DevSender)
    \/ \E f \in DevSendFrames : DataReceived(f)
    \/ DataReturn

SpecDevSend == InitDevSend /\ [][NextDevSend]_vars

\* ------------------------------------------------------------------------
\* Properties of send_data
\* ------------------------------------------------------------------------

\* the frames the call of sender t handed to sendto, in order
Sent(t) ==
    IF call[t].buf \in SendBuffers
    THEN SelectSeq(wire[call[t].buf], LAMBDA e : e.who = t)
    ELSE <<>>

\* every transmission of the call carries the call's sequence number and payload
Uniform(t) ==
    \A i \in 1..Len(Sent(t)) :
        /\ Sent(t)[i].seq = seqnum(t)
        /\ Sent(t)[i].data = call[t].data
        /\ Sent(t)[i].seq = Sent(t)[1].seq
        /\ Sent(t)[i].data = Sent(t)[1].data

AllOk(t) == \A i \in 1..Len(Sent(t)) : Sent(t)[i].ok

Ended(t) == pc[t] \in {"done", "raised"}

\* C1: an acknowledged send whose matching ACK first comes in while the call
\* waits in its k-th try (no matching ACK during the waits of the tries before)
\* has made exactly k transmissions, all with the same sequence number and
\* payload, and returns OK.
C1_AckInKthTry ==
    \A t \in Senders :
        (pc[t] = "done" /\ NeedAck(call[t].type) /\ ackTry[t] > 0)
        => /\ call[t].status = OK
           /\ Len(Sent(t)) = ackTry[t]
           /\ ackTry[t] <= call[t].n
           /\ Uniform(t)

\* the scenario of the specification: the ACK comes in during the third try
C1_Witness ==
    \E t \in Senders :
        /\ pc[t] = "done"
        /\ NeedAck(call[t].type)
        /\ ackTry[t] = 3
        /\ Len(Sent(t)) = 3
        /\ call[t].status = OK

\* C2: an acknowledged send with tries = n >= 1 whose transmissions all succeed
\* at the socket and whose sequence number no ACK carries ends by returning
\* TIMEOUT after exactly n transmissions.
C2_AckTimeout ==
    \A t \in Senders :
        (/\ Ended(t)
         /\ call[t].buf \in SendBuffers
         /\ NeedAck(call[t].type)
         /\ call[t].n >= 1
         /\ AllOk(t)
         /\ ~acked[t])
        => /\ pc[t] = "done"
           /\ call[t].status = TIMEOUT
           /\ Len(Sent(t)) = call[t].n

\* the counter of buffer b in the initial state (0 for a counter made later)
Base(b) == IF Has(base, b) THEN base[b] ELSE 0

\* C3: on every buffer the k-th allocated sequence number is (k-1) mod 256
\* counted from the counter's initial value (0 on a fresh buffer), whatever the
\* interleaving of the allocating calls; no value is handed out twice.
C3_SeqAllocation ==
    \A b \in DOMAIN allocs :
        \A k \in 1..Len(allocs[b]) :
            allocs[b][k] = (Base(b) + k - 1) % SeqMod

\* positions of wire[b] that are the first transmission of a call
FirstTx(b) ==
    {i \in 1..Len(wire[b]) : \A j \in 1..(i-1) : wire[b][j].who # wire[b][i].who}

\* C4 as stated: on a send buffer the frame with seq s+1 is never first
\* transmitted before the frame with seq s.
C4_WireOrderBySeq ==
    \A b \in SendBuffers :
        \A i, j \in FirstTx(b) :
            i < j => wire[b][i].seq # (wire[b][j].seq + 1) % SeqMod

\* C4 (amended): the buffer's mutex serialises the calls: the transmissions of
\* one send_data call on a buffer (first try and retries) are contiguous on the
\* wire; no transmission of another call on that buffer falls between them.
C4_CallsSerialised ==
    \A b \in SendBuffers :
        \A i, j, k \in 1..Len(wire[b]) :
            (i < j /\ j < k /\ wire[b][i].who = wire[b][k].who)
            => wire[b][j].who = wire[b][i].who

\* two calls with retries on the same buffer, the higher seq on the wire first
C4_Witness ==
    /\ Len(wire[11]) = 4
    /\ wire[11][1].who = wire[11][2].who
    /\ wire[11][3].who = wire[11][4].who
    /\ wire[11][1].who # wire[11][3].who
    /\ wire[11][1].seq = (wire[11][3].seq + 1) % SeqMod

\* ------------------------------------------------------------------------
\* Properties of data_received
\* ------------------------------------------------------------------------

\* the step in which data_received handles a frame
Handling == pc[Reader] = "idle" /\ pc'[Reader] # "idle"

\* the ACK frame f acknowledges the pending sequence number of a send buffer
AckAwaited(f) ==
    /\ f.buf - AckOffset \in SendBuffers
    /\ Len(f.data) = 1
    /\ f.data[1] = ack_seq[f.buf - AckOffset]

\* the event of buffer f.buf - 128 is signalled iff the ACK is awaited
AckSignalRule(f) ==
    IF AckAwaited(f)
    THEN /\ sig' = {f.buf - AckOffset}
         /\ ack_events' = [ack_events EXCEPT ![f.buf - AckOffset] = TRUE]
    ELSE /\ sig' = {}
         /\ ack_events' = ack_events

\* C8 as stated: an ACK frame on buffer B signals the event of B-128 iff B-128
\* is a send buffer whose pending seq is the payload byte; nothing is delivered
\* to the listener and no frame is sent.
C8_AckOnly ==
    [][(Handling /\ frame'.type = ACK)
        => (AckSignalRule(frame') /\ out' = <<>>)]_vars

\* C8 (amended): as stated, except that an ACK frame on buffer 0 is, like
\* every frame on buffer 0, answered by one pong on buffer 1; nothing else is
\* sent and nothing is delivered to the listener.
C8_AckOrPong ==
    [][(Handling /\ frame'.type = ACK)
        => /\ AckSignalRule(frame')
           /\ \A i \in 1..Len(out') : out'[i].k = "tx" /\ out'[i].buf = PongBuffer
           /\ Len(out') = IF frame'.buf = PingBuffer THEN 1 ELSE 0]_vars

\* an ACK for the wrapped sequence number 255 released the sender waiting on 11
C8_Witness ==
    /\ pc[Reader] = "handled"
    /\ frame.type = ACK
    /\ sig = {11}
    /\ frame.data = <<255>>
    /\ \E t \in Senders : pc[t] = "wait" /\ call[t].buf = 11 /\ seqnum(t) = 255

\* data_received has handled the frame (or left with an exception)
Handled == pc[Reader] \in {"handled", "raised"}

\* the frame was handed to the listener
Delivered == \E i \in 1..Len(out) : out[i].k = "up"

\* the difference of two sequence numbers as a signed 8-bit value
Signed8(x) == ((x + 384) % 256) - 128

\* the acceptance rule of the specification
RuleAccepts(last, seq) ==
    LET d == Signed8(seq - last)
    IN  d >= 1 \/ d <= -ReorderLimit

\* C5: _should_accept accepts a data frame on a declared receive buffer iff
\* d >= 1 or d <= -10 for d = (seq - last) as a signed 8-bit value; last becomes
\* seq on accept and stays on reject; an undeclared buffer always rejects.
C5_FilterIsReferenceRule ==
    (Handled /\ frame.type \in DataTypes)
    => IF frame.buf \in RecvBuffers
       THEN /\ Delivered <=> RuleAccepts(last0, frame.seq)
            /\ recv_seq[frame.buf] = IF Delivered THEN frame.seq ELSE last0
       ELSE ~Delivered

\* C6: a data frame that repeats the seq of the frame just accepted on its
\* receive buffer is not delivered to the listener a second time.
C6_NoDuplicateDelivery ==
    (/\ Handled
     /\ frame.type \in DataTypes
     /\ frame.buf \in RecvBuffers
     /\ LET h == fed[frame.buf] IN
        /\ Len(h) >= 2
        /\ h[Len(h) - 1].acc
        /\ h[Len(h) - 1].seq = frame.seq)
    => ~Delivered

\* the seqs fed to buffer 126 begin with 250, 251, 252, 0, 1
WrapScenario ==
    /\ Len(fed[126]) >= 5
    /\ [i \in 1..5 |-> fed[126][i].seq] = <<250, 251, 252, 0, 1>>

\* C7 as stated: on a fresh receive buffer the frames 250, 251, 252, 0, 1 are
\* all accepted.
C7_AllFiveAccepted ==
    WrapScenario => \A i \in 1..5 : fed[126][i].acc

\* C7 (amended): on a fresh receive buffer (last = 255) the frames 250, 251,
\* 252 are rejected (they lie less than 10 below 255) and 0 and 1 are accepted.
C7_OnlyWrappedAccepted ==
    WrapScenario
    => [i \in 1..5 |-> fed[126][i].acc] = <<FALSE, FALSE, FALSE, TRUE, TRUE>>

C7_Witness ==
    /\ WrapScenario
    /\ pc[Reader] = "handled"
    /\ out = <<Up(126, Payload)>>
    /\ recv_seq[126] = 1

\* the ACK frames data_received sent for the current frame
AcksOut == SelectSeq(out, LAMBDA e : e.k = "tx" /\ e.type = ACK)

\* the value the counter of buffer b handed out last
LastAlloc(b) == (Base(b) + Len(allocs[b]) - 1) % SeqMod

\* C9: a DATA_WITH_ACK frame on buffer B with seq s is answered by exactly one
\* ACK on B+128 with payload <<s>> and the next seq of B+128's counter, sent
\* after the delivery and whether or not the frame was accepted; DATA and
\* DATA_LOW_LATENCY frames trigger no ACK.
C9_AckEmission ==
    (Handled /\ frame.type \in DataTypes)
    => IF frame.type = DATA_WITH_ACK
       THEN /\ Len(AcksOut) = 1
            /\ out[Len(out)] = AcksOut[1]
            /\ AcksOut[1].buf = frame.buf + AckOffset
            /\ AcksOut[1].data = <<frame.seq>>
            /\ AcksOut[1].seq = LastAlloc(frame.buf + AckOffset)
       ELSE Len(AcksOut) = 0

\* the pongs data_received sent for the current frame
PongsOut == SelectSeq(out, LAMBDA e : e.k = "tx" /\ e.buf = PongBuffer)

\* C10: a frame on buffer 0, whatever its type and seq, is answered by exactly
\* one DATA frame on buffer 1 with the ping's payload and the next seq of
\* buffer 1's counter; the ping is not delivered to the listener (buffer 0 is
\* no receive buffer).
C10_PingPong ==
    (Handled /\ frame # NoFrame /\ frame.buf = PingBuffer)
    => /\ Len(PongsOut) = 1
       /\ out[1] = PongsOut[1]
       /\ PongsOut[1].type = DATA
       /\ PongsOut[1].data = frame.data
       /\ PongsOut[1].seq = LastAlloc(PongBuffer)
       /\ \A i \in 1..Len(out) : out[i].k = "tx" /\ (i > 1 => out[i].type = ACK)
       /\ (PingBuffer \notin RecvBuffers => ~Delivered)

\* the second ping after the counter of buffer 1 held 255: the pong has seq 0,
\* whatever the seq and the type of the ping
C10_Witness ==
    /\ pc[Reader] = "handled"
    /\ frame.buf = PingBuffer
    /\ frame.seq = 250
    /\ frame.type = ACK
    /\ allocs[PongBuffer] = <<255, 0>>
    /\ Len(out) = 1
    /\ out[1].seq = 0

\* ------------------------------------------------------------------------
\* Properties of send_data: failures, arguments, termination
\* ------------------------------------------------------------------------

\* C11: when the socket send of a try fails, send_data returns ERROR at once:
\* the failed transmission is the call's last one even when tries remain, and
\* the call does not wait on the ack event, for every data type.
C11_SendFailure ==
    \A t \in Senders :
        \A i \in 1..Len(Sent(t)) :
            ~Sent(t)[i].ok
            => /\ i = Len(Sent(t))
               /\ pc[t] = "done"
               /\ call[t].status = ERROR

\* an acknowledged send whose first try failed at the socket, with a try left
C11_Witness ==
    \E t \in Senders :
        /\ pc[t] = "done"
        /\ NeedAck(call[t].type)
        /\ call[t].n = 2
        /\ call[t].tries = 1
        /\ Len(Sent(t)) = 1
        /\ ~Sent(t)[1].ok
        /\ call[t].status = ERROR

NonAck(t) == call[t].buf \in SendBuffers /\ call[t].type \in {DATA, DATA_LOW_LATENCY}

\* C12: a DATA or DATA_LOW_LATENCY send on a declared buffer makes exactly one
\* transmission, never waits for an ack, and returns OK when the socket send
\* succeeded, whatever the values of timeout and tries.
C12_NonAckSend ==
    \A t \in Senders :
        (pc[t] # "start" /\ NonAck(t))
        => /\ pc[t] # "wait"
           /\ Ended(t) => /\ pc[t] = "done"
                          /\ Len(Sent(t)) = 1
                          /\ Sent(t)[1].ok => call[t].status = OK

\* C13: every call of send_data eventually returns a status, for every
\* argument combination (timeout None included), whatever the peer and the
\* other senders do.
C13_SendReturns ==
    \A t \in Senders : (pc[t] # "start") ~> (pc[t] = "done")

\* the step in which sender t enters send_data
Enters(t) == pc[t] = "start" /\ pc'[t] # "start"

\* C14: send_data on a buffer that is not a declared send buffer returns ERROR,
\* transmits nothing, consumes no sequence number and leaves every pending-ack
\* slot and ack event as they were.
C14_UndeclaredBuffer ==
    [][\A t \in Senders :
         (Enters(t) /\ call'[t].buf \notin SendBuffers)
         => /\ pc'[t] = "done"
            /\ call'[t].status = ERROR
            /\ wire' = wire
            /\ send_seq' = send_seq
            /\ allocs' = allocs
            /\ ack_seq' = ack_seq
            /\ ack_events' = ack_events]_vars

\* a call on buffer 12 returned ERROR while the other sender waits for the
\* acknowledge of its frame on buffer 11
C14_Witness ==
    \E t, u \in Senders :
        /\ pc[t] = "done"
        /\ call[t].buf = 12
        /\ call[t].status = ERROR
        /\ pc[u] = "wait"
        /\ ack_seq[11] = seqnum(u)
        /\ Len(wire[11]) = 1

\* ------------------------------------------------------------------------
\* Properties of the transport: disconnection, stop, restart
\* ------------------------------------------------------------------------

\* the did_disconnect callbacks of the current read loop
DiscCalls == SelectSeq(calls, LAMBDA e : e.k = "disc")

\* the read thread is in its loop (it may still deliver frames)
InLoop == loop \in {"while", "recvfrom", "frames"}

\* C15: a read loop that ends on a read timeout or a socket error calls
\* did_disconnect exactly once, after its last data_received callback;
\* did_disconnect is never called while the loop can still deliver frames.
C15_DisconnectOnce ==
    /\ Len(DiscCalls) <= 1
    /\ \A i \in 1..Len(calls) : calls[i].k = "disc" => i = Len(calls)
    /\ InLoop => Len(DiscCalls) = 0
    /\ (loop \in {"unrun", "ended"} /\ why \in RecvErrors) => Len(DiscCalls) = 1

\* a loop that delivered a frame and then ended on the read timeout
C15_Witness ==
    /\ loop = "ended"
    /\ why = "timeout"
    /\ Len(calls) = 2
    /\ calls[1].k = "data"
    /\ calls[2].k = "disc"

\* the read loop has ended and both sockets are closed
Down == loop = "ended" /\ recv_sock = "closed" /\ send_sock = "closed"

\* C16: after stop() on a started transport the read loop eventually exits and
\* both sockets end up closed; a further stop() changes nothing.
C16_Stop ==
    /\ (stopped /\ running) ~> Down
    /\ [][(Stop /\ stopped)
          => UNCHANGED <<alive, running, send_sock, recv_sock, loop>>]_vars

\* the transport is started: _alive, _running, open sockets, a live read loop
Started ==
    /\ alive
    /\ running
    /\ send_sock = "open"
    /\ recv_sock = "open"
    /\ InLoop
    /\ pc[Reader] # "raised"

\* the step in which a call of start() returns
StartReturns == (Start /\ running) \/ StartDone

\* C17: a start() that follows a stop() leaves the transport started, whenever
\* it is called relative to the exit of the previous read loop (as long as
\* the loop it finds or creates has not itself lost the connection); start()
\* on a started, not stopped transport changes nothing.
C17_Restart ==
    [][/\ (StartReturns /\ (stopped \/ ctl = "starting") /\ why' = "")
          => Started'
       /\ (Start /\ running /\ ~stopped)
          => UNCHANGED <<alive, running, send_sock, recv_sock, loop>>]_vars

\* C18: a send_data call made after the read loop ended on the read timeout
\* and did_disconnect reached the Device returns ERROR, and none of its frames
\* reaches the wire.
C18_SendAfterLoss ==
    \A t \in Senders :
        late[t] => /\ \A i \in 1..Len(Sent(t)) : ~Sent(t)[i].ok
                   /\ Ended(t) => (pc[t] = "done" /\ call[t].status = ERROR)

\* ------------------------------------------------------------------------
\* Properties of the read loop: frames and commands
\* ------------------------------------------------------------------------

\* the frames the read loop handed to data_received for the current datagram
DataCalls == SelectSeq(calls, LAMBDA e : e.k = "data")

\* C19: for a datagram of n coalesced well-formed frames the read loop calls
\* data_received exactly n times, in wire order, each time with the frame's
\* type, buffer, seq and payload, and then waits for the next datagram.
C19_Demux ==
    /\ [](/\ Len(DataCalls) <= Len(rx)
          /\ \A i \in 1..Len(DataCalls) : DataCalls[i] = DataCall(rx[i]))
    /\ (loop = "frames") ~> (loop = "while" /\ Len(DataCalls) = Len(rx))

\* the payload makes unpack_command raise CommandError
Undecodable(data) == unpack_command(data).raised

\* C20: a frame on a command buffer whose payload cannot be decoded is
\* discarded: the store is unchanged and the read loop goes on with the
\* following frames and datagrams.
C20_DecodeErrorLocal ==
    [][(/\ Handling
        /\ frame'.type \in DataTypes
        /\ frame'.buf \in cmdBuffers
        /\ Undecodable(frame'.data))
       => (store' = store /\ pc'[Reader] = "handled")]_vars

\* ------------------------------------------------------------------------
\* Properties of the read loop on arbitrary datagrams
\* ------------------------------------------------------------------------

\* C21: whatever bytes a datagram holds, its processing terminates without
\* ending the read thread: the loop that went into the datagram comes back
\* to the test of its outer loop, where the next datagram is received.
C21_MalformedSurvived == (loop = "frames") ~> (loop = "while")

\* ------------------------------------------------------------------------
\* Properties of State.wait_for
\* ------------------------------------------------------------------------

\* a put, put_list or put_map on the name is among the calls number
\* from + 1 .. to of plog
PutOn(name, from, to) == \E i \in (from + 1)..to : plog[i].name = name

\* the event of a thread blocked in wait_for is set exactly when a call on
\* its name completed since it registered
EventFollowsPuts(w) ==
    wt[w].pc = "blocked" =>
        (waitlist[wt[w].name][wt[w].wid] = PutOn(wt[w].name, wt[w].regAt, Len(plog)))

\* wait_for returns True exactly when a call on its name completed between
\* its registration and the end of its wait
ResultFollowsPuts(w) ==
    wt[w].pc \in {"woken", "done"} =>
        (wt[w].res = PutOn(wt[w].name, wt[w].regAt, wt[w].retAt))

\* C22: wait_for(name, t) returns True iff a put, put_list or put_map on
\* exactly that name completes between its registration and the expiry of
\* t; one such call sets the event of every waiter registered on the name
\* and of no waiter registered on another name.
C22_WaitResult ==
    \A w \in Waiters : EventFollowsPuts(w) /\ ResultFollowsPuts(w)

\* one put on the battery name released both a waiter on that name and left
\* a waiter on the storage name to its timeout
C22_Witness ==
    /\ Len(plog) = 1
    /\ wt["w1"].pc = "done" /\ wt["w1"].name = BatteryName /\ wt["w1"].res
    /\ wt["w2"].pc = "done" /\ wt["w2"].name = StorageName /\ ~wt["w2"].res
    /\ wt["w1"].regAt = 0 /\ wt["w2"].regAt = 0 /\ wt["w2"].retAt = 1

\* the number in plog of the latest call on the name
LastOn(name) ==
    CHOOSE i \in 1..Len(plog) :
        /\ plog[i].name = name
        /\ \A j \in (i + 1)..Len(plog) : plog[j].name # name

\* the slot value v holds what the logged call e wrote
Holds(v, e) ==
    IF e.op = "NONE" THEN v.some /\ v.val = e.args
    ELSE IF e.op = "MAP"
    THEN v.some /\ Has(v.val, e.key) /\ v.val[e.key] = e.args
    ELSE v.some /\ Len(v.val) > 0 /\ v.val[Len(v.val)] = e.args

\* a put* on the name of the waiter took the lock while it was registered
\* and its wait had not returned
PutWhileWaiting(w) ==
    wt[w].pc = "blocked" /\ PutOn(wt[w].name, wt[w].regAt, Len(plog))

ReturnedTrue(w) == wt[w].pc = "done" /\ wt[w].res

\* when True is returned the slot holds the value of the latest put* on the
\* name, and that call took the lock after the registration
TrueSeesValue(w) ==
    (wt[w].pc \in {"woken", "done"} /\ wt[w].res) =>
        /\ PutOn(wt[w].name, wt[w].regAt, Len(plog))
        /\ LastOn(wt[w].name) > wt[w].regAt
        /\ Holds(Slot(store, wt[w].name), plog[LastOn(wt[w].name)])

\* C23 (amended): a put* on the name that takes the store lock after the
\* waiter registered its event and before its event.wait returned, the
\* window before it started blocking included, makes that wait_for return
\* True (with timeout None: every put* after the registration); and when
\* wait_for returns True the slot holds the value written by the latest
\* put* on the name, which took the lock after the registration.
C23_NoLostWakeup ==
    /\ \A w \in Waiters : PutWhileWaiting(w) ~> ReturnedTrue(w)
    /\ [](\A w \in Waiters : TrueSeesValue(w))

\* C23 as stated: every put* on the name that takes the store lock after
\* the waiter registered its event makes that wait_for return True.
C23_PutAfterRegistration ==
    \A w \in Waiters :
        (wt[w].pc = "done" /\ PutOn(wt[w].name, wt[w].regAt, wt[w].endAt))
            => wt[w].res

\* a waiter without timeout registered, two puts on its name took the lock,
\* and it returned True with the value of the second in the slot
C23_Witness ==
    /\ ReturnedTrue("w1") /\ wt["w1"].timeout = "none"
    /\ wt["w1"].regAt = 0 /\ wt["w1"].retAt = 2
    /\ plog[1].args # plog[2].args
    /\ Slot(store, wt["w1"].name).val = plog[2].args

\* ------------------------------------------------------------------------
\* Properties of the store of the State
\* ------------------------------------------------------------------------

\* some put* call on the name is logged
Written(name) == PutOn(name, 0, Len(plog))

\* the number in plog of the latest put_map on the name under key k
LastKeyed(name, k) ==
    CHOOSE i \in 1..Len(plog) :
        /\ plog[i].name = name /\ plog[i].key = k
        /\ \A j \in (i + 1)..Len(plog) :
              ~(plog[j].name = name /\ plog[j].key = k)

\* the keys of the put_map calls on the name
KeysOf(name) == {plog[i].key : i \in {j \in 1..Len(plog) : plog[j].name = name}}

\* what the log says a map slot holds
MapOf(name) == [k \in KeysOf(name) |-> plog[LastKeyed(name, k)].args]

\* what get_value(name) returns: None, or the value
Got(name) == Slot(store, name)

\* get_value after the calls logged in plog
LastWriteWins ==
    /\ \A n \in GetNames : ~Written(n) => ~Got(n).some
    /\ Written(BatteryName) =>
          Got(BatteryName).some /\ Got(BatteryName).val = plog[LastOn(BatteryName)].args
    /\ Written(StorageName) =>
          Got(StorageName).some /\ Got(StorageName).val = MapOf(StorageName)

\* the step is a put* call on the name
CallOn(name) ==
    Len(plog') = Len(plog) + 1 /\ plog'[Len(plog')].name = name

\* a call leaves the other names as they are
OthersKept ==
    \A n \in GetNames : ~CallOn(n) => Slot(store', n) = Got(n)

\* a put_map leaves the other keys of its slot as they are
OtherKeysKept ==
    (CallOn(StorageName) /\ Written(StorageName)) =>
        \A k \in KeysOf(StorageName) \ {plog'[Len(plog')].key} :
            Slot(store', StorageName).val[k] = Got(StorageName).val[k]

\* C24: single and map slots are last-write-wins: get_value returns for a
\* single slot the args of the most recent put, for a map slot a mapping in
\* which every key maps to the args of the most recent put_map under that
\* key; a call leaves the other keys and the other names unchanged;
\* get_value of a name never written returns None.
C24_LastWriteWins ==
    [](LastWriteWins) /\ [][OthersKept /\ OtherKeysKept]_vars

\* put_map under key 0, under key 1, under key 0 again with other args, and
\* a put on another name: key 0 holds the third call, key 1 the second
C24_Witness ==
    /\ Len(plog) = 4
    /\ plog[1].name = StorageName /\ plog[1].key = 0
    /\ plog[2].name = StorageName /\ plog[2].key = 1
    /\ plog[3].name = StorageName /\ plog[3].key = 0
    /\ plog[3].args # plog[1].args
    /\ plog[4].name = BatteryName
    /\ Got(StorageName).val[0] = plog[3].args
    /\ Got(StorageName).val[1] = plog[2].args
    /\ Got(BatteryName).val = plog[4].args
    /\ ~Got(AllStatesName).some

\* the args of the put_list calls on the name, in the order of the log
RECURSIVE ArgsOf(_, _)
ArgsOf(name, n) ==
    IF n = 0 THEN <<>>
    ELSE IF plog[n].name = name
    THEN Append(ArgsOf(name, n - 1), plog[n].args)
    ELSE ArgsOf(name, n - 1)

\* C25: list slots accumulate in order: after n put_list calls on a name
\* get_value returns the list of length n whose i-th element is the args
\* of the i-th call to take the lock; calls of put_list, get_value and
\* duplicate in between lose, duplicate and reorder nothing.
C25_ListInOrder ==
    /\ Written(ScanName) =>
          /\ Got(ScanName).some
          /\ Got(ScanName).val = ArgsOf(ScanName, Len(plog))
    /\ ~Written(ScanName) => ~Got(ScanName).some

\* three put_list calls with differing args and one get_value or duplicate
C25_Witness ==
    /\ Len(plog) = 3 /\ putsLeft = MaxPuts - 4
    /\ \A i \in 1..3 : plog[i].name = ScanName
    /\ plog[1].args # plog[2].args /\ plog[3].args = plog[1].args
    /\ Len(Got(ScanName).val) = 3
    /\ Got(ScanName).val[2] = plog[2].args

\* ------------------------------------------------------------------------
\* Properties of Device.data_received
\* ------------------------------------------------------------------------

\* the payload decodes to a known command
Decodes(u) == u.ok /\ ~u.raised

\* the store after the one call the list type of the decoded command u
\* selects
StoredBy(u) ==
    CASE u.cmd.listtype = "NONE" ->
           put(store, u.cmd.pname, u.cmd.cname, u.cmd.cmdname, u.args)
      [] u.cmd.listtype = "LIST" ->
           put_list(store, u.cmd.pname, u.cmd.cname, u.cmd.cmdname, u.args)
      [] u.cmd.listtype = "MAP" ->
           put_map(store, u.cmd.pname, u.cmd.cname, u.cmd.cmdname, u.args,
                   u.vals[1])

\* the waiters after that call
SignalledBy(u) ==
    signal_waiting(waitlist, u.cmd.pname, u.cmd.cname, u.cmd.cmdname)

\* the frame f with payload decoding u was handled
DispatchRule(f, u) ==
    IF Delivered' /\ f.buf \in cmdBuffers /\ Decodes(u)
    THEN store' = StoredBy(u) /\ waitlist' = SignalledBy(u)
    ELSE store' = store /\ waitlist' = waitlist

\* Device.data_received called with a payload of a buffer that is not a
\* command buffer leaves the store and the waiters
OtherBuffersIgnored ==
    \A b \in OtherBuffers : \A d \in DevPayloads :
        DeviceDataReceived(store, waitlist, b, d) = Untouched(store, waitlist, FALSE)

\* C27: a delivered payload modifies the store only if its buffer is a
\* command buffer of the device and it decodes to a known command; then
\* exactly one of put (list kind NONE), put_list (LIST), put_map keyed by
\* the first argument (MAP) is applied to the slot project.class.command;
\* payloads of other buffers or with unknown ids leave the store and all
\* waiters untouched.
C27_Dispatch ==
    /\ [](OtherBuffersIgnored)
    /\ [][Handling => DispatchRule(frame', unpack_command(frame'.data))]_vars

\* a map command, a list command on which a thread waited and a command of
\* an unknown class were received
C27_Witness ==
    /\ framesLeft = 0 /\ pc[Reader] = "handled"
    /\ frame.data = <<0, 9, 0, 0>> /\ Delivered
    /\ Got(StorageName).some /\ Has(Got(StorageName).val, 1)
    /\ Got(ScanName).some /\ Len(Got(ScanName).val) = 1
    /\ wt["w1"].name = ScanName /\ ReturnedTrue("w1")

\* ------------------------------------------------------------------------
\* Properties of pack_command and unpack_command
\* ------------------------------------------------------------------------

\* the name is a command of the schema
Known(name) == ByName(name[1], name[2], name[3]) # {}

\* the command of the schema a known name stands for
CmdOf(name) == CHOOSE e \in ByName(name[1], name[2], name[3]) : TRUE

\* the value is one of its declared kind: an integer of the range, a float
\* (in this model: of integral value), a string without NUL
ValidValue(k, v) ==
    CASE k = "u8" -> v \in 0..255
      [] k = "i8" -> v \in (-128)..127
      [] k = "float" -> v \in Nat
      [] k = "string" -> \A j \in 1..Len(v) : v[j] \in 1..255
      [] OTHER -> TRUE

\* the tuple has the declared count of arguments, each of its declared kind
SchemaValid(cmd, args) ==
    /\ Len(args) = Len(cmd.args)
    /\ \A i \in 1..Len(args) : ValidValue(cmd.args[i], args[i])

\* the integral value n is a value of an IEEE 754 single: at most 24
\* significant bits
Single(n) ==
    n = 0 \/ n % Pow2(IF Log2(n) > 23 THEN Log2(n) - 23 ELSE 0) = 0

\* every float of the tuple is a value of a single
AllSingle(cmd, args) ==
    \A i \in 1..Len(args) : cmd.args[i] = "float" => Single(args[i])

\* the dictionary of the declared names to the values of the tuple
Named(cmd, args) ==
    [n \in {cmd.argnames[i] : i \in 1..Len(args)} |->
        args[CHOOSE i \in 1..Len(args) : cmd.argnames[i] = n]]

\* unpack_command returned the command and the arguments that were packed
Returned(cmd, args, u) ==
    /\ ~u.raised /\ u.ok
    /\ u.cmd.pname = cmd.pname /\ u.cmd.cname = cmd.cname
    /\ u.cmd.cmdname = cmd.cmdname
    /\ u.args = Named(cmd, args)
    /\ u.arg0 = (IF Len(args) > 0 THEN args[1] ELSE <<>>)

\* pack_command returned bytes, and unpack_command gave the call back
RoundTrip(cmd) ==
    /\ codec.pc = "packed" => codec.packed.exc = NoExc
    /\ codec.pc = "unpacked" => Returned(cmd, codec.args, codec.unpacked)

C29_ArityChecked ==
    (codec.pc \in {"packed", "unpacked"} /\ Known(codec.name)) =>
        /\ Len(codec.args) # Len(CmdOf(codec.name).args)
              => codec.packed.exc = CommandError
        /\ codec.packed.exc = NoExc
              => Len(codec.args) = Len(CmdOf(codec.name).args)

\* ------------------------------------------------------------------------
\* Properties of Device.send_data
\* ------------------------------------------------------------------------

\* the command of the call can be encoded
Encodable(d) == Len(d.name) = 3 /\ pack_command(d.name[1], d.name[2], d.name[3], d.args).exc = NoExc

\* the buffer and the data type the claim gives to a buffer kind
BufferFor(kind) ==
    CASE kind = "NON_ACK" -> nackBuffer
      [] kind = "ACK" -> ackBuffer
      [] kind = "HIGH_PRIO" -> urgBuffer
TypeFor(kind) ==
    CASE kind = "NON_ACK" -> DATA
      [] kind = "ACK" -> DATA_WITH_ACK
      [] kind = "HIGH_PRIO" -> DATA_LOW_LATENCY

\* the call of thread t went to the Network as the claim says
RoutedAs(t, d, cmd) ==
    /\ d.early = "no"
    /\ call[t].buf = BufferFor(cmd.buftype)
    /\ call[t].type = TypeFor(cmd.buftype)
    /\ call[t].n = (IF d.kw = <<>> THEN 5 ELSE d.kw[1]) + 1
    /\ call[t].timeout = "finite"
    /\ call[t].data = pack_command(d.name[1], d.name[2], d.name[3], d.args).bytes

\* nothing was transmitted and no sequence number was consumed
NothingSent ==
    /\ \A b \in DOMAIN wire : wire[b] = <<>>
    /\ \A b \in DOMAIN allocs : allocs[b] = <<>>
    /\ send_seq = [b \in SendBuffers |-> 0]

\* the call of thread t returned ERROR before it reached the Network
ReturnedError(t, d) ==
    /\ pc[t] = "done"
    /\ d.early \in {CommandError, "NoBuffer"}
    /\ NothingSent

\* the call d of thread t does what the claim says
SendRule(t, d) ==
    IF Encodable(d) /\ BufferFor(CmdOf(d.name).buftype) # -1
    THEN RoutedAs(t, d, CmdOf(d.name))
    ELSE ReturnedError(t, d)

\* C26: Device.send_data sends a known command of buffer kind NON_ACK on
\* nackBuffer with type DATA, ACK on ackBuffer with type DATA_WITH_ACK,
\* HIGH_PRIO on urgBuffer with type DATA_LOW_LATENCY, always with
\* tries = retries + 1 (default retries 5, timeout 0.15); if the command
\* cannot be encoded or the selected buffer is -1, the call returns ERROR,
\* nothing is transmitted and no sequence number is consumed.
C26_SendRouting ==
    \A t \in Senders : dcall[t].made => SendRule(t, dcall[t])

\* ------------------------------------------------------------------------
\* Properties of the acknowledge of a send
\* ------------------------------------------------------------------------

\* the call of thread t has recorded its sequence number as the pending
\* acknowledge of its buffer and has not returned
Pending(t) ==
    pc[t] \in {"loop", "wait"} /\ NeedAck(call[t].type)

\* a frame of another call went out earlier on the buffer of t with the
\* sequence number of t
EarlierSend(t) ==
    \E i \in 1..Len(wire[call[t].buf]) :
        /\ wire[call[t].buf][i].who # t
        /\ wire[call[t].buf][i].type = DATA_WITH_ACK
        /\ wire[call[t].buf][i].ok
        /\ wire[call[t].buf][i].seq = seqnum(t)

\* the read thread handles an ACK frame that sets the event of the buffer
\* of t
AckSets(t) ==
    /\ Handling
    /\ frame'.type = ACK
    /\ frame'.buf = call[t].buf + AckOffset
    /\ sig' = {call[t].buf}

\* an acknowledged call returned OK only after an ACK with its sequence
\* number was handled while it was pending
OkByAck ==
    \A t \in Senders :
        (pc[t] = "done" /\ NeedAck(call[t].type) /\ call[t].status = OK)
            => acked[t]

\* the acknowledge of an earlier send does not set the event of a call that
\* has transmitted nothing yet
NotByEarlierAck ==
    \A t \in Senders :
        (Pending(t) /\ ntx(t) = 0 /\ EarlierSend(t)) => ~AckSets(t)

\* C30: a DATA_WITH_ACK send_data call with sequence number s on buffer b
\* returns OK only if an ACK frame on buffer b + 128 with payload s was
\* processed after the call recorded s as the pending ack of b; an ACK for
\* an earlier send on b, late or duplicated, never makes a later send on b
\* return OK.
C30_OwnAck == [](OkByAck) /\ [][NotByEarlierAck]_vars

\* ------------------------------------------------------------------------
\* Properties of the reads of the State
\* ------------------------------------------------------------------------

\* the step is a call of get_value or duplicate: a call that is not logged
ReadCall == putsLeft' = putsLeft - 1 /\ plog' = plog

\* C34: get_value(name), for a name that is present, absent or malformed,
\* and duplicate() leave the store as it was (same project keys, class
\* keys, command keys and slot contents) and signal no waiter.
C34_ReadsKeepStore ==
    [][ReadCall => (store' = store /\ waitlist' = waitlist)]_vars

\* ------------------------------------------------------------------------
\* Properties of the buffer locks
\* ------------------------------------------------------------------------

\* the call of thread t is between the recording of its pending ack and
\* its return, on buffer b
Holding(t, b) == pc[t] \in {"loop", "wait"} /\ call[t].buf = b

\* at most one call per send buffer is there
OneHolder ==
    \A b \in SendBuffers : \A t, u \in Senders :
        (Holding(t, b) /\ Holding(u, b)) => t = u

\* while thread t waits for the ack event of its buffer, a step leaves the
\* pending ack of the buffer, does not clear its event and transmits no
\* frame on it
WaitUndisturbed(t) ==
    pc[t] = "wait" =>
        /\ ack_seq'[call[t].buf] = ack_seq[call[t].buf]
        /\ ack_events[call[t].buf] => ack_events'[call[t].buf]
        /\ wire'[call[t].buf] = wire[call[t].buf]

\* C31: at any time at most one send_data call per send buffer is between
\* recording its pending ack and returning its status; while a sender waits
\* on the ack event of buffer b, no other call changes the pending ack of
\* b, clears the event of b or transmits a frame on b.
C31_RetriesExclusive ==
    /\ [](OneHolder)
    /\ [][\A t \in Senders : WaitUndisturbed(t)]_vars

\* a call waits for its ack on buffer 11 while another acknowledged call on
\* it is queued on the lock, and the first has already retried
C31_Witness ==
    /\ pc["s1"] = "wait" /\ call["s1"].buf = 11
    /\ pc["s2"] = "lock" /\ call["s2"].buf = 11 /\ NeedAck(call["s2"].type)
    /\ ntx("s1") = 2

\* the read thread, blocked in recvfrom or inside data_received, can take
\* its next step whatever the senders are doing
ReaderFree ==
    /\ (pc[Reader] = "idle" /\ framesLeft > 0)
          => \A f \in Frames : ENABLED DataReceived(f)
    /\ pc[Reader] = "handled" => ENABLED DataReturn

\* a call that reached its with statement enters it unless a call on the
\* same buffer is inside
BuffersIndependent ==
    \A t \in Senders :
        (pc[t] = "lock" /\ \A u \in Senders : ~Holding(u, call[t].buf))
            => ENABLED SendLock(t)

MaxBringFrames == 2

\* the bring-up thread: its call of send_data and its call of wait_answer
BringSender == "s1"
BringWaiter == "w1"

\* the acknowledge of the request, AllStatesChanged() and
\* BatteryStateChanged(7) on the command buffer 126
BringFrames ==
    {AckFrame(139, <<0>>)}
    \cup [type : {DATA}, buf : {126}, seq : {1},
          data : {<<0, 5, 0, 0>>, <<0, 5, 1, 0, 7>>}]

\* self.send_data('common.Common.AllStates')
BringSend ==
    DevSendData(BringSender, DottedName("common", "Common", "AllStates"),
                <<>>, <<>>)

\* self.wait_answer('common.CommonState.AllStatesChanged'), once send_data
\* has returned: wait_for with the default timeout of 5 seconds
BringWait ==
    /\ pc[BringSender] = "done"
    /\ WaitFor(BringWaiter, AllStatesName, "finite")

InitBring ==
    /\ NetInit([b \in SendBuffers |-> 0])
    /\ GhostInit
    /\ ThreadInit
    /\ ALInit(0)
    /\ DevInit
    /\ framesLeft = MaxBringFrames

NextBring ==
    \/ BringSend
    \/ SendStep(BringSender)
    \/ BringWait
    \/ WaitStep(BringWaiter)
    \/ \E f \in BringFrames : DataReceived(f)
    \/ DataReturn

\* the bring-up thread and the read thread are scheduled; the device sends
\* what and when it likes
BringFair ==
    /\ WF_vars(BringSend)
    /\ WF_vars(SendStep(BringSender))
    /\ WF_vars(BringWait)
    /\ WF_vars(WaitStep(BringWaiter))
    /\ WF_vars(DataReturn)

SpecBring == InitBring /\ [][NextBring]_vars /\ BringFair

\* ------------------------------------------------------------------------
\* Properties of the bring-up
\* ------------------------------------------------------------------------

\* wait_answer has not returned from event.wait
BeforeAnswer == wt[BringWaiter].pc \in {"start", "blocked"}

\* send_data has returned and AllStatesChanged is not stored yet
RequestReturned ==
    pc[BringSender] = "done" /\ BeforeAnswer /\ ~Got(AllStatesName).some

\* AllStatesChanged is stored and the wait has not timed out
AnswerStored == BeforeAnswer /\ Got(AllStatesName).some

\* wait_answer returns True
AnswerSeen == wt[BringWaiter].pc = "done" => wt[BringWaiter].res

\* C33: after send_data('common.Common.AllStates') has returned, if the
\* read thread stores AllStatesChanged before the wait has timed out, also
\* before the bring-up thread has entered wait_for, wait_answer returns True.
C33_AnswerNotMissed ==
    [](RequestReturned => [](AnswerStored => []AnswerSeen))

====
